---- MODULE Spec2Model ----
(***************************************************************************)
(* Model of the Stera icon exporter plugin (src/src/code.ts, lines 1-926,  *)
(* the current generation of the plugin code).                             *)
(*                                                                         *)
(* Text is modelled as text: a JavaScript string is a TLA+ string, read    *)
(* one UTF-16 code unit at a time, and every regular expression of the     *)
(* source is an operator that scans the string the way the expression      *)
(* does.  Positions are 1-based here and 0-based in the source.            *)
(***************************************************************************)
EXTENDS Integers, Sequences, FiniteSets, TLC

VARIABLES
  fop,      \* which pure function the current behaviour exercises ("run" for a plugin run)
  fin,      \* its input
  fout,     \* its result (Pending until applied)
  fout2,    \* the result of applying it a second time, where that is meaningful
  page,     \* figma.currentPage: the node tree of the run (NoPage: none)
  pc,       \* position of the export-icons message handler
  msgs,     \* messages posted with figma.ui.postMessage, in order
  notes,    \* figma.notify calls, in order
  exportCalls, \* ids of the components whose exportAsync was called, in order
  scan,     \* result of getComponentsFromPage and collectComponentSetChildIds
  iconsData,\* the iconsData array of exportIcons
  loopIdx,  \* index of the set loop, then of the group loop
  entries,  \* Object.entries(iconGroups) of exportIcons
  individualProcessedCount, \* the counter of that name in exportIcons
  console,  \* the console.warn and console.error calls made so far
  nextIndex,\* the cursor of mapWithConcurrency
  results,  \* the results array of mapWithConcurrency (Unset: an empty slot)
  workers,  \* the workers of mapWithConcurrency: where each one stands
  awaiting  \* "yield" while exportIcons waits in await yieldToFigma(), else ""

vars == <<fop, fin, fout, fout2, page, pc, msgs, notes, exportCalls, scan,
          iconsData, loopIdx, entries, individualProcessedCount, console,
          nextIndex, results, workers, awaiting>>

-----------------------------------------------------------------------------
(* Strings                                                                 *)

Char(s, i) == SubSeq(s, i, i)

LowerAZ == "abcdefghijklmnopqrstuvwxyz"
UpperAZ == "ABCDEFGHIJKLMNOPQRSTUVWXYZ"
Digits == "0123456789"
\* the printable ASCII characters in code-unit order: U+0020..U+005F and
\* U+0061..U+007E (U+0060 cannot be written in a TLA+ string and is left out)
AsciiLow == " !\"#$%&'()*+,-./0123456789:;<=>?@ABCDEFGHIJKLMNOPQRSTUVWXYZ[\\]^_"
AsciiHigh == "abcdefghijklmnopqrstuvwxyz{|}~"

CharsOf(s) == {Char(s, i) : i \in 1..Len(s)}
LowerSet == CharsOf(LowerAZ)
UpperSet == CharsOf(UpperAZ)
DigitSet == CharsOf(Digits)

\* String.prototype.charCodeAt for the characters the model uses
CodeTable == [c \in CharsOf(AsciiLow) \cup CharsOf(AsciiHigh) \cup {"\t", "\n"} |->
                IF c = "\t" THEN 9
                ELSE IF c = "\n" THEN 10
                ELSE IF c \in CharsOf(AsciiLow)
                THEN 31 + (CHOOSE i \in 1..Len(AsciiLow) : Char(AsciiLow, i) = c)
                ELSE 96 + (CHOOSE i \in 1..Len(AsciiHigh) : Char(AsciiHigh, i) = c)]
charCodeAt(c) == CodeTable[c]

\* \s of a JavaScript regular expression, and the set String.prototype.trim removes
IsSpace(c) == c \in {" ", "\t", "\n"}
\* \w of a JavaScript regular expression
IsWord(c) == c \in LowerSet \cup UpperSet \cup DigitSet \cup {"_"}

LowerTable == [c \in UpperSet |-> Char(LowerAZ, CHOOSE i \in 1..26 : Char(UpperAZ, i) = c)]
LowerChar(c) == IF c \in UpperSet THEN LowerTable[c] ELSE c

\* least element of a non-empty set of integers
MinOf(S) == CHOOSE x \in S : \A y \in S : x <= y
\* greatest element of a non-empty set of integers
MaxOf(S) == CHOOSE x \in S : \A y \in S : x >= y

RECURSIVE ConcatRange(_, _, _)
\* parts[lo] \o ... \o parts[hi], by halves (the evaluation depth stays logarithmic)
ConcatRange(parts, lo, hi) ==
  IF lo > hi THEN ""
  ELSE IF lo = hi THEN parts[lo]
  ELSE LET mid == (lo + hi) \div 2
       IN ConcatRange(parts, lo, mid) \o ConcatRange(parts, mid + 1, hi)

\* the concatenation of a sequence of strings
Concat(parts) == ConcatRange(parts, 1, Len(parts))

\* s with every character c replaced by the string Op(c)
MapChars(Op(_), s) == Concat([i \in 1..Len(s) |-> Op(Char(s, i))])

\* String.prototype.toLowerCase
toLowerCase(s) == MapChars(LowerChar, s)

\* first position >= i of s that holds no white space (Len(s)+1 when none)
SkipSpace(s, i) ==
  MinOf({k \in i..Len(s) : ~IsSpace(Char(s, k))} \cup {IF i > Len(s) THEN i ELSE Len(s) + 1})

\* last position <= i of s that holds no white space (0 when none)
SkipSpaceBack(s, i) ==
  MaxOf({k \in 1..i : ~IsSpace(Char(s, k))} \cup {0})

\* String.prototype.trim
trim(s) == SubSeq(s, SkipSpace(s, 1), SkipSpaceBack(s, Len(s)))

\* does sub occur in s at position i
MatchAt(s, sub, i) ==
  /\ i >= 1
  /\ i + Len(sub) - 1 <= Len(s)
  /\ SubSeq(s, i, i + Len(sub) - 1) = sub

\* first position >= i at which sub occurs in s, 0 when none (indexOf, 1-based)
IndexFrom(s, sub, i) ==
  LET at == {k \in i..(Len(s) - Len(sub) + 1) : MatchAt(s, sub, k)}
  IN IF at = {} THEN 0 ELSE MinOf(at)

\* last position at which sub occurs in s, 0 when none (lastIndexOf, 1-based)
lastIndexOf(s, sub) ==
  LET at == {k \in 1..(Len(s) - Len(sub) + 1) : MatchAt(s, sub, k)}
  IN IF at = {} THEN 0 ELSE MaxOf(at)

\* String.prototype.includes / startsWith / endsWith
includes(s, sub) == \E k \in 1..(Len(s) - Len(sub) + 1) : MatchAt(s, sub, k)
startsWith(s, sub) == MatchAt(s, sub, 1)
endsWith(s, sub) == Len(sub) <= Len(s) /\ MatchAt(s, sub, Len(s) - Len(sub) + 1)

RECURSIVE split(_, _)
\* String.prototype.split with a non-empty separator (one level per piece)
split(s, sep) ==
  LET k == IndexFrom(s, sep, 1)
  IN IF k = 0 THEN <<s>>
     ELSE <<SubSeq(s, 1, k - 1)>> \o split(SubSeq(s, k + Len(sep), Len(s)), sep)

\* Array.prototype.join
join(parts, sep) ==
  Concat([k \in 1..Len(parts) |-> IF k = 1 THEN parts[k] ELSE sep \o parts[k]])

\* a < b in the order of UTF-16 code units (the default order of Array.prototype.sort)
CodeLess(a, b) ==
  LET n == IF Len(a) < Len(b) THEN Len(a) ELSE Len(b)
      diff == {k \in 1..n : Char(a, k) # Char(b, k)}
  IN IF diff = {} THEN Len(a) < Len(b)
     ELSE charCodeAt(Char(a, MinOf(diff))) < charCodeAt(Char(b, MinOf(diff)))

\* Array.prototype.sort (stable) under a comparator that is a weak order:
\* Less(a, b) is "the comparator is negative on (a, b)".  The element at i goes
\* behind every element that is less, and behind every equal one that precedes it.
SortByRank(q, Less(_, _)) ==
  LET n == Len(q)
      Rank(i) == 1 + Cardinality({j \in 1..n :
                        \/ Less(q[j], q[i])
                        \/ (~Less(q[i], q[j]) /\ j < i)})
  IN [k \in 1..n |-> q[CHOOSE i \in 1..n : Rank(i) = k]]

\* the array is evaluated once, then sorted
StableSort(q, Less(_, _)) ==
  CHOOSE sorted \in {SortByRank(array, Less) : array \in {q}} : TRUE

RECURSIVE StringsUpTo(_, _)
\* every string of at most n characters of the set alphabet
StringsUpTo(alphabet, n) ==
  IF n = 0 THEN {""}
  ELSE LET P == StringsUpTo(alphabet, n - 1)
       IN P \cup {s \o c : s \in P, c \in alphabet}

-----------------------------------------------------------------------------
(* extractBaseName                                                         *)

NAME_SEPARATORS == <<"/", "=", " - ">>

RECURSIVE BaseNameFrom(_, _)
BaseNameFrom(rawName, k) ==
  IF k > Len(NAME_SEPARATORS) THEN trim(rawName)
  ELSE IF includes(rawName, NAME_SEPARATORS[k])
       THEN trim(split(rawName, NAME_SEPARATORS[k])[1])
       ELSE BaseNameFrom(rawName, k + 1)

extractBaseName(rawName) == BaseNameFrom(rawName, 1)

-----------------------------------------------------------------------------
(* toKebabCase                                                             *)

\* .replace(/([a-z])([A-Z])/g, '$1-$2'): a match takes a lowercase and an uppercase
\* letter, so no two matches overlap and each such pair gets its hyphen
HyphenateCamel(s) ==
  Concat([i \in 1..Len(s) |->
    IF i < Len(s) /\ Char(s, i) \in LowerSet /\ Char(s, i + 1) \in UpperSet
    THEN Char(s, i) \o "-" ELSE Char(s, i)])

\* .replace(re, rep) for a global re of the form [class]+ : every maximal run
\* of characters of the class becomes rep
ReplaceRuns(InClass(_), rep, s) ==
  Concat([i \in 1..Len(s) |->
    IF ~InClass(Char(s, i)) THEN Char(s, i)
    ELSE IF i = 1 \/ ~InClass(Char(s, i - 1)) THEN rep
    ELSE ""])

IsSpaceOrUnderscore(c) == IsSpace(c) \/ c = "_"

\* .replace(/[\s_]+/g, '-')
HyphenateSpaces(s) == ReplaceRuns(IsSpaceOrUnderscore, "-", s)

KebabChar(c) == c \in LowerSet \cup DigitSet \cup {"-"}
KeepKebabChar(c) == IF KebabChar(c) THEN c ELSE ""

\* .replace(/[^a-z0-9-]/g, '')
DropNonKebab(s) == MapChars(KeepKebabChar, s)

IsHyphen(c) == c = "-"

\* .replace(/-+/g, '-')
CollapseHyphens(s) == ReplaceRuns(IsHyphen, "-", s)

\* .replace(/^-|-$/g, ''): one hyphen at the start, and one at the end unless
\* it is the character the first alternative consumed
TrimHyphens(s) ==
  LET lead == Len(s) >= 1 /\ Char(s, 1) = "-"
      from == IF lead THEN 2 ELSE 1
      trail == Len(s) >= from /\ Char(s, Len(s)) = "-"
  IN SubSeq(s, from, IF trail THEN Len(s) - 1 ELSE Len(s))

\* toKebabCase without its .replace(/-+/g, '-') step
toKebabCaseNoCollapse(str) ==
  TrimHyphens(
    DropNonKebab(
      toLowerCase(
        HyphenateSpaces(
          HyphenateCamel(str)))))

toKebabCase(str) ==
  TrimHyphens(
    CollapseHyphens(
      DropNonKebab(
        toLowerCase(
          HyphenateSpaces(
            HyphenateCamel(str))))))

-----------------------------------------------------------------------------
(* processTags                                                             *)

\* .map(tag => tag.trim().toLowerCase())
TrimLowerAll(parts) == [k \in 1..Len(parts) |-> toLowerCase(trim(parts[k]))]

\* array.indexOf(x), 1-based (0 when absent)
ArrayIndexOf(q, x) ==
  IF \E k \in 1..Len(q) : q[k] = x
  THEN CHOOSE k \in 1..Len(q) : q[k] = x /\ \A j \in 1..(k - 1) : q[j] # x
  ELSE 0

\* .filter((tag, index, array) => array.indexOf(tag) === index)
FirstOccurrences(q) ==
  LET Idx == {k \in 1..Len(q) : ArrayIndexOf(q, q[k]) = k}
      Nth(n) == CHOOSE k \in Idx : Cardinality({j \in Idx : j < k}) = n - 1
  IN [n \in 1..Cardinality(Idx) |-> q[Nth(n)]]

NonEmpty(t) == Len(t) > 0

\* processTags without its final .sort()
processTagsUnsorted(tagsString) ==
  IF tagsString = "" THEN <<>>
  ELSE FirstOccurrences(SelectSeq(TrimLowerAll(split(tagsString, ",")), NonEmpty))

processTags(tagsString) ==
  IF tagsString = "" THEN <<>>
  ELSE StableSort(
         FirstOccurrences(
           SelectSeq(TrimLowerAll(split(tagsString, ",")), NonEmpty)),
         CodeLess)

-----------------------------------------------------------------------------
(* generateHash                                                            *)

\* TLC's integers are 32 bits wide, so the accumulator is kept as the two 16-bit
\* halves <<hi, lo>> of its two's-complement value hi * 2^16 + lo.
Half == 65536

\* hash = ((hash << 5) - hash) + char; hash = hash & hash
\* that is hash := 31 * hash + char wrapped to 32 bits
HashStep(h, char) ==
  LET low == 31 * h[2] + char
      high == 31 * h[1] + (low \div Half)
  IN <<high % Half, low % Half>>

RECURSIVE HashFold(_, _, _, _)
\* the loop of generateHash over positions i..j with accumulator h
HashFold(input, i, j, h) ==
  IF i > j THEN h
  ELSE LET next == HashStep(h, charCodeAt(Char(input, i)))
       IN IF next[1] >= 0 THEN HashFold(input, i + 1, j, next) ELSE next

\* the loop is evaluated a block of positions at a time to keep the evaluation shallow
HashBlock == 16

RECURSIVE HashLoop(_, _, _)
HashLoop(input, i, h) ==
  IF i > Len(input) THEN h
  ELSE LET j == IF i + HashBlock - 1 > Len(input) THEN Len(input) ELSE i + HashBlock - 1
           next == HashFold(input, i, j, h)
       IN IF next[1] >= 0 THEN HashLoop(input, j + 1, next) ELSE next

\* the accumulator is negative as a signed 32-bit integer
IsNegative32(h) == h[1] >= Half \div 2

\* Math.abs of the signed 32-bit value of h, again as two halves
Abs32(h) ==
  IF ~IsNegative32(h) THEN h
  ELSE IF h[2] = 0 THEN <<Half - h[1], 0>>
  ELSE <<Half - 1 - h[1], Half - h[2]>>

HexDigits == "0123456789abcdef"

RECURSIVE ToHex(_)
\* Number.prototype.toString(16) of a natural number below 2^16
ToHex(n) ==
  IF n < 16 THEN Char(HexDigits, n + 1)
  ELSE ToHex(n \div 16) \o Char(HexDigits, (n % 16) + 1)

RECURSIVE padStart(_, _, _)
\* String.prototype.padStart with a one-character filler
padStart(s, width, fill) ==
  IF Len(s) >= width THEN s ELSE padStart(fill \o s, width, fill)

\* Number.prototype.toString(16) of the natural number m[1] * 2^16 + m[2]
ToHex32(m) ==
  IF m[1] = 0 THEN ToHex(m[2]) ELSE ToHex(m[1]) \o padStart(ToHex(m[2]), 4, "0")

generateHash(input) ==
  IF Len(input) = 0 THEN ToHex32(<<0, 0>>)
  ELSE padStart(ToHex32(Abs32(HashLoop(input, 1, <<0, 0>>))), 8, "0")

-----------------------------------------------------------------------------
(* deduplicateSVG                                                          *)

SHAPE_TAGS == {"path", "rect", "circle", "ellipse", "line", "polyline", "polygon"}
RISKY_ATTRIBUTES ==
  {"id", "class", "style", "filter", "mask", "clip-path", "clipPath", "transform"}

\* .replace(/\s+/g, ' ')
CollapseSpace(s) == ReplaceRuns(IsSpace, " ", s)

\* collapseWs and the value normalisation of normalizeAttrs: .replace(/\s+/g, ' ').trim()
collapseWs(s) == trim(CollapseSpace(s))

\* /^<svg\b[^>]*>/i : the position of the '>' ending the match at the start of s, 0 when none
SvgOpenEnd(s) ==
  IF /\ Len(s) >= 5
     /\ toLowerCase(SubSeq(s, 1, 4)) = "<svg"
     /\ ~IsWord(Char(s, 5))
  THEN IndexFrom(s, ">", 5)
  ELSE 0

\* [A-Za-z_] and [\w:.-] of elementRe, [A-Za-z_:] of attrRe
IsNameStart(c) == c \in LowerSet \cup UpperSet \cup {"_"}
IsNameChar(c) == IsWord(c) \/ c \in {":", ".", "-"}

\* first position >= i of s that holds no name character
NameEnd(s, i) ==
  MinOf({k \in i..Len(s) : ~IsNameChar(Char(s, k))} \cup {IF i > Len(s) THEN i ELSE Len(s) + 1})

NoMatch == [ok |-> FALSE]

\* elementRe = /<([A-Za-z_][\w:.-]*)(\s+[^>]*?)?\s*(\/>|>([\s\S]*?)<\/\1>)/ tried at
\* position i.  The tag name is maximal; [^>]*? cannot pass the first '>' after
\* it (at gt); '/>' there is the self-closing form, otherwise the lazy body ends
\* at the first '</tag>' after gt; text between the tag name and gt must start
\* with white space unless it is just '/'.
ElementAt(s, i) ==
  IF ~(i + 1 <= Len(s) /\ Char(s, i) = "<" /\ IsNameStart(Char(s, i + 1))) THEN NoMatch
  ELSE
    LET j == NameEnd(s, i + 1)
        tag == SubSeq(s, i + 1, j - 1)
        gt == IndexFrom(s, ">", j)
    IN IF gt = 0 THEN NoMatch
       ELSE IF j < gt /\ ~IsSpace(Char(s, j)) /\ ~(Char(s, j) = "/" /\ gt = j + 1) THEN NoMatch
       ELSE IF j < gt /\ Char(s, gt - 1) = "/"
       THEN [ok |-> TRUE, first |-> i, last |-> gt, tag |-> tag,
             rawAttrs |-> SubSeq(s, j, gt - 2), paired |-> FALSE]
       ELSE LET close == "</" \o tag \o ">"
                c == IndexFrom(s, close, gt + 1)
            IN IF c = 0 THEN NoMatch
               ELSE [ok |-> TRUE, first |-> i, last |-> c + Len(close) - 1, tag |-> tag,
                     rawAttrs |-> SubSeq(s, j, gt - 1), paired |-> TRUE]

\* elementRe.exec(body) with lastIndex = from: the leftmost match at or after from
NextElement(s, from) ==
  LET at == {i \in from..Len(s) : Char(s, i) = "<" /\ ElementAt(s, i).ok}
  IN IF at = {} THEN NoMatch ELSE ElementAt(s, MinOf(at))

IsQuote(c) == c \in {"\"", "'"}
IsBareValueChar(c) == ~IsSpace(c) /\ c \notin {"\"", "'", ">", "/"}

\* attrRe = /([A-Za-z_:][\w:.-]*)\s*=\s*(?:"([^"]*)"|'([^']*)'|([^\s"'>/]+))/ tried at position i
AttrAt(s, i) ==
  IF ~(i <= Len(s) /\ (IsNameStart(Char(s, i)) \/ Char(s, i) = ":")) THEN NoMatch
  ELSE
    LET j == NameEnd(s, i + 1)
        eq == SkipSpace(s, j)
    IN IF ~(eq <= Len(s) /\ Char(s, eq) = "=") THEN NoMatch
       ELSE
         LET v == SkipSpace(s, eq + 1)
         IN IF v > Len(s) THEN NoMatch
            ELSE IF IsQuote(Char(s, v))
            THEN LET c == IndexFrom(s, Char(s, v), v + 1)
                 IN IF c = 0 THEN NoMatch
                    ELSE [ok |-> TRUE, last |-> c, name |-> SubSeq(s, i, j - 1),
                          val |-> SubSeq(s, v + 1, c - 1)]
            ELSE IF IsBareValueChar(Char(s, v))
            THEN LET e == MinOf({k \in v..Len(s) : ~IsBareValueChar(Char(s, k))}
                                 \cup {Len(s) + 1})
                 IN [ok |-> TRUE, last |-> e - 1, name |-> SubSeq(s, i, j - 1),
                     val |-> SubSeq(s, v, e - 1)]
            ELSE NoMatch

\* attrRe.exec(attrSrc) with lastIndex = from
NextAttr(s, from) ==
  LET at == {i \in from..Len(s) : AttrAt(s, i).ok}
  IN IF at = {} THEN NoMatch ELSE AttrAt(s, MinOf(at))

\* A Record<string,string> is the sequence of its <<key, value>> entries in
\* insertion order; out[name] = val overwrites the value of a key already there.
HasKey(rec, k) == \E n \in 1..Len(rec) : rec[n][1] = k
Lookup(rec, k) == rec[CHOOSE n \in 1..Len(rec) : rec[n][1] = k][2]
PutKey(rec, k, v) ==
  IF HasKey(rec, k)
  THEN [n \in 1..Len(rec) |-> IF rec[n][1] = k THEN <<k, v>> ELSE rec[n]]
  ELSE Append(rec, <<k, v>>)
\* a[k] is truthy: present and not the empty string
Truthy(rec, k) == HasKey(rec, k) /\ Lookup(rec, k) # ""

RECURSIVE ParseAttrsFrom(_, _, _)

ParseAttrsMatch(attrSrc, m, out) ==
  IF ~m.ok THEN out
  ELSE ParseAttrsFrom(attrSrc, m.last + 1, PutKey(out, m.name, m.val))

\* the loop of parseAttrs (one level per attribute)
ParseAttrsFrom(attrSrc, from, out) == ParseAttrsMatch(attrSrc, NextAttr(attrSrc, from), out)

parseAttrs(attrSrc) == ParseAttrsFrom(attrSrc, 1, <<>>)

\* tag.replace(/^[A-Za-z_]\w*:/, '')
stripNs(tag) ==
  IF Len(tag) >= 1 /\ IsNameStart(Char(tag, 1))
  THEN LET k == MinOf({n \in 2..Len(tag) : ~IsWord(Char(tag, n))} \cup {Len(tag) + 1})
       IN IF k <= Len(tag) /\ Char(tag, k) = ":" THEN SubSeq(tag, k + 1, Len(tag)) ELSE tag
  ELSE tag

normalizeAttrs(attrs) == [n \in 1..Len(attrs) |-> <<attrs[n][1], collapseWs(attrs[n][2])>>]

\* /^[01](?:\.0+)?$/
IsFullOpacity(v) ==
  /\ Len(v) >= 1
  /\ Char(v, 1) \in {"0", "1"}
  /\ \/ Len(v) = 1
     \/ /\ Len(v) >= 3
        /\ Char(v, 2) = "."
        /\ \A k \in 3..Len(v) : Char(v, k) = "0"

isSafeToRemove(tag, attrs, hasChildren) ==
  LET t == toLowerCase(stripNs(tag))
      full(k) == ~HasKey(attrs, k) \/ IsFullOpacity(Lookup(attrs, k))
  IN /\ ~hasChildren
     /\ t \in SHAPE_TAGS
     /\ \A riskyAttr \in RISKY_ATTRIBUTES : ~Truthy(attrs, riskyAttr)
     /\ \A n \in 1..Len(attrs) : ~includes(attrs[n][2], "url(#")
     /\ full("opacity")
     /\ full("fill-opacity")
     /\ full("stroke-opacity")
     /\ ~(HasKey(attrs, "stroke") /\ Lookup(attrs, "stroke") # "none")

PairLess(a, b) == CodeLess(a[1], b[1])

keyOf(tag, attrs) ==
  LET t == toLowerCase(stripNs(tag))
      norm == StableSort(normalizeAttrs(attrs), PairLess)
      pairs == [n \in 1..Len(norm) |-> norm[n][1] \o "=" \o norm[n][2]]
  IN t \o "|" \o join(pairs, ";")

RECURSIVE DedupLoop(_, _, _, _)

\* the body of the while loop for the match m, once its attributes, its
\* eligibility and its key are known
DedupElement(body, m, safe, k, seen, out) ==
  IF safe /\ k \in seen
  THEN DedupLoop(body, m.last + 1, seen, out)
  ELSE DedupLoop(body, m.last + 1,
                 IF safe THEN seen \cup {k} ELSE seen,
                 Append(out, SubSeq(body, m.first, m.last)))

DedupMatched(body, m, attrs, seen, out) ==
  DedupElement(body, m, isSafeToRemove(m.tag, attrs, m.paired), keyOf(m.tag, attrs), seen, out)

DedupMatch(body, m, seen, out) ==
  IF ~m.ok THEN out ELSE DedupMatched(body, m, parseAttrs(m.rawAttrs), seen, out)

\* the while loop of deduplicateSVG (one level per matched element): seen is
\* the set of keys, out the kept elements
DedupLoop(body, from, seen, out) == DedupMatch(body, NextElement(body, from), seen, out)

deduplicateSVG(svgString) ==
  LET openEnd == SvgOpenEnd(svgString)
      svgClose == "</svg>"
      closeAt == lastIndexOf(svgString, svgClose)
  IN IF openEnd = 0 THEN svgString
     ELSE IF closeAt = 0 \/ closeAt - 1 < openEnd THEN svgString
     ELSE LET svgOpen == SubSeq(svgString, 1, openEnd)
              body == SubSeq(svgString, openEnd + 1, closeAt - 1)
          IN svgOpen \o Concat(DedupLoop(body, 1, {}, <<>>)) \o svgClose

-----------------------------------------------------------------------------
(* normalizeSVG                                                            *)

REQUIRED_VIEWBOX == "0 0 24 24"

\* .replace(/>\s+</g, '><'): white space is dropped where its run lies between '>' and '<'
DropSpaceBetweenTags(s) ==
  Concat([i \in 1..Len(s) |->
    IF ~IsSpace(Char(s, i)) THEN Char(s, i)
    ELSE LET before == SkipSpaceBack(s, i)
             after == SkipSpace(s, i)
         IN IF before >= 1 /\ Char(s, before) = ">" /\ after <= Len(s) /\ Char(s, after) = "<"
            THEN "" ELSE Char(s, i)])

\* case-insensitive match of the lowercase word at position i
MatchWordAt(s, word, i) ==
  /\ i >= 1
  /\ i + Len(word) - 1 <= Len(s)
  /\ toLowerCase(SubSeq(s, i, i + Len(word) - 1)) = word

\* /<svg\b([^>]*)>/i tried at position i: the position of the closing '>', 0 when no match
SvgTagAt(s, i) ==
  IF /\ MatchWordAt(s, "<svg", i)
     /\ i + 4 <= Len(s)
     /\ ~IsWord(Char(s, i + 4))
  THEN IndexFrom(s, ">", i + 4)
  ELSE 0

\* normalized.replace(/<svg\b([^>]*)>/i, `<svg$1 viewBox="${REQUIRED_VIEWBOX}">`)
AddViewBox(s) ==
  LET at == {i \in 1..Len(s) : Char(s, i) = "<" /\ SvgTagAt(s, i) # 0}
  IN IF at = {} THEN s
     ELSE LET i == MinOf(at)
              gt == SvgTagAt(s, i)
          IN SubSeq(s, 1, i - 1)
             \o "<svg" \o SubSeq(s, i + 4, gt - 1)
             \o " viewBox=\"" \o REQUIRED_VIEWBOX \o "\">"
             \o SubSeq(s, gt + 1, Len(s))

\* first position >= i of s that holds a quote character, 0 when none
NextQuote(s, i) ==
  LET at == {k \in i..Len(s) : IsQuote(Char(s, k))}
  IN IF at = {} THEN 0 ELSE MinOf(at)

\* \s*=\s*["'][^"']*["'] tried at position i: the position of the closing quote, 0 when no match
QuotedValueAt(s, i) ==
  LET eq == SkipSpace(s, i)
  IN IF ~(eq <= Len(s) /\ Char(s, eq) = "=") THEN 0
     ELSE LET v == SkipSpace(s, eq + 1)
          IN IF v <= Len(s) /\ IsQuote(Char(s, v)) THEN NextQuote(s, v + 1) ELSE 0

\* /viewBox\s*=\s*["']([^"']*)["']/i tried at position i: the end of the match, 0 when none
ViewBoxAt(s, i) ==
  IF MatchWordAt(s, "viewbox", i) THEN QuotedValueAt(s, i + 7) ELSE 0

\* normalized.replace(/viewBox\s*=\s*["']([^"']*)["']/i, `viewBox="${REQUIRED_VIEWBOX}"`)
SetViewBox(s) ==
  LET at == {i \in 1..Len(s) : ViewBoxAt(s, i) # 0}
  IN IF at = {} THEN s
     ELSE LET i == MinOf(at)
          IN SubSeq(s, 1, i - 1)
             \o "viewBox=\"" \o REQUIRED_VIEWBOX \o "\""
             \o SubSeq(s, ViewBoxAt(s, i) + 1, Len(s))

\* the three attribute-stripping expressions tried at position i (the end of the
\* match, 0 when none):
\*   "id"    /\s+id\s*=\s*["'][^"']*["']/i
\*   "class" /\s+class\s*=\s*["'][^"']*["']/i
\*   "data"  /\s+data-[^=]*\s*=\s*["'][^"']*["']/i   ([^=]* runs up to the next '=')
StripAt(kind, s, i) ==
  IF ~(i <= Len(s) /\ IsSpace(Char(s, i))) THEN 0
  ELSE LET w == SkipSpace(s, i)
       IN IF kind = "data"
          THEN IF MatchWordAt(s, "data-", w)
               THEN LET eq == IndexFrom(s, "=", w + 5)
                    IN IF eq = 0 THEN 0 ELSE QuotedValueAt(s, eq)
               ELSE 0
          ELSE IF MatchWordAt(s, kind, w) THEN QuotedValueAt(s, w + Len(kind)) ELSE 0

RECURSIVE StripFrom(_, _, _)
\* .replace(re, '') for the global expression kind, from position from (one level per match)
StripFrom(kind, s, from) ==
  LET at == {i \in from..Len(s) : StripAt(kind, s, i) # 0}
  IN IF at = {} THEN SubSeq(s, from, Len(s))
     ELSE LET i == MinOf(at)
          IN SubSeq(s, from, i - 1) \o StripFrom(kind, s, StripAt(kind, s, i) + 1)

StripAttribute(kind, s) == StripFrom(kind, s, 1)

\* the viewBox step of normalizeSVG
EnsureViewBox(normalized) ==
  IF ~includes(normalized, "viewBox=") THEN AddViewBox(normalized) ELSE SetViewBox(normalized)

normalizeSVG(svgString) ==
  trim(CollapseSpace(
    StripAttribute("data",
      StripAttribute("class",
        StripAttribute("id",
          EnsureViewBox(
            trim(DropSpaceBetweenTags(CollapseSpace(svgString)))))))))

\* the canonical form processIconGroup stores: normalizeSVG(deduplicateSVG(svg))
canonicalize(svg) == normalizeSVG(deduplicateSVG(svg))

-----------------------------------------------------------------------------
(* validateSVG                                                             *)

RECURSIVE CountOpenTags(_, _)
\* (svgString.match(/<svg[^>]*>/gi) || []).length, counted from position from
CountOpenTags(s, from) ==
  LET at == {i \in from..Len(s) : MatchWordAt(s, "<svg", i) /\ IndexFrom(s, ">", i + 4) # 0}
  IN IF at = {} THEN 0
     ELSE 1 + CountOpenTags(s, IndexFrom(s, ">", MinOf(at) + 4) + 1)

RECURSIVE CountCloseTags(_, _)
\* (svgString.match(/<\/svg>/gi) || []).length, counted from position from
CountCloseTags(s, from) ==
  LET at == {i \in from..Len(s) : MatchWordAt(s, "</svg>", i)}
  IN IF at = {} THEN 0 ELSE 1 + CountCloseTags(s, MinOf(at) + 6)

HexLetters == CharsOf("abcdefABCDEF")
IsHexDigit(c) == c \in DigitSet \cup HexLetters

\* #[0-9a-fA-F]{3,6}["'] tried at position i
HexColourAt(s, i) ==
  /\ i <= Len(s) /\ Char(s, i) = "#"
  /\ \E n \in 3..6 :
       /\ i + n + 1 <= Len(s)
       /\ \A k \in 1..n : IsHexDigit(Char(s, i + k))
       /\ IsQuote(Char(s, i + n + 1))

\* \s*["']#... after the '=' at position eq
HexValueAfter(s, q) == q <= Len(s) /\ IsQuote(Char(s, q)) /\ HexColourAt(s, q + 1)

\* \s*=\s*["']#... after the word fill, the '=' looked for at position eq
HexFillFrom(s, eq) ==
  eq <= Len(s) /\ Char(s, eq) = "=" /\ HexValueAfter(s, SkipSpace(s, eq + 1))

\* hexColorRegex.test(svgString) for /fill\s*=\s*["']#[0-9a-fA-F]{3,6}["']/g
HasHexFill(s) ==
  \E i \in 1..Len(s) : MatchAt(s, "fill", i) /\ HexFillFrom(s, SkipSpace(s, i + 4))

\* the errors array as validateSVG fills it, check by check
ValidationErrors(svgString, trimmed, openTags, closeTags, variant) ==
  (IF ~startsWith(trimmed, "<svg") THEN <<"SVG does not start with <svg tag">> ELSE <<>>)
  \o (IF ~endsWith(trimmed, "</svg>") THEN <<"SVG does not end with </svg> tag">> ELSE <<>>)
  \o (IF openTags # closeTags
      THEN <<"SVG tag mismatch: " \o ToString(openTags) \o " opening tags, "
               \o ToString(closeTags) \o " closing tags">>
      ELSE <<>>)
  \o (IF ~includes(svgString, "viewBox=\"" \o REQUIRED_VIEWBOX \o "\"")
      THEN <<"Missing or incorrect viewBox. Expected: \"" \o REQUIRED_VIEWBOX \o "\"">>
      ELSE <<>>)
  \o (IF ~variant.duotone /\ HasHexFill(svgString)
      THEN <<"Non-duotone variant (weight: \"" \o variant.weight
               \o "\", duotone: false) should not contain fixed hex colors (fill=\"#...\")">>
      ELSE <<>>)

ValidationResult(errors) == [isValid |-> Len(errors) = 0, errors |-> errors]

validateSVG(svgString, variant) ==
  ValidationResult(ValidationErrors(svgString, trim(svgString),
                                    CountOpenTags(svgString, 1), CountCloseTags(svgString, 1),
                                    variant))

-----------------------------------------------------------------------------
(* Inputs of the text functions                                            *)

\* figma.currentPage when no page is open
NoPage == [exists |-> FALSE, name |-> "", children |-> <<>>]

\* the plugin-run part of the state while a text function is exercised
RunIdle ==
  /\ page = NoPage
  /\ msgs = <<>>
  /\ notes = <<>>
  /\ exportCalls = <<>>
  /\ scan = [components |-> <<>>, componentSets |-> <<>>, childIds |-> {}]
  /\ iconsData = <<>>
  /\ loopIdx = 0
  /\ entries = <<>>
  /\ individualProcessedCount = 0
  /\ console = {}
  /\ nextIndex = 0
  /\ results = <<>>
  /\ workers = <<>>
  /\ awaiting = ""

RunUnchanged ==
  UNCHANGED <<page, msgs, notes, exportCalls, scan, iconsData, loopIdx, entries,
              individualProcessedCount, console, nextIndex, results, workers, awaiting>>

\* Markup is written from a description: an element is its tag, its attributes
\* in source order, its form ("self" for <t .../>, "pair" for <t ...>kids</t>)
\* and, for a pair, its child elements.
Attr(name, val) == <<name, val>>
Leaf(tag, attrs, form) == [tag |-> tag, attrs |-> attrs, form |-> form, kids |-> <<>>]
Group(tag, kids) == [tag |-> tag, attrs |-> <<>>, form |-> "pair", kids |-> kids]

RenderAttrs(attrs) ==
  Concat([n \in 1..Len(attrs) |-> " " \o attrs[n][1] \o "=\"" \o attrs[n][2] \o "\""])

RECURSIVE Render(_)
Render(e) ==
  "<" \o e.tag \o RenderAttrs(e.attrs)
  \o (IF e.form = "self" THEN "/>"
      ELSE ">" \o Concat([n \in 1..Len(e.kids) |-> Render(e.kids[n])]) \o "</" \o e.tag \o ">")

RenderSvg(in) ==
  in.open \o Concat([n \in 1..Len(in.elems) |-> Render(in.elems[n])]) \o "</svg>"

FillPath == Leaf("path", <<Attr("d", "M0"), Attr("fill", "red")>>, "self")
FillPathSwapped == Leaf("path", <<Attr("fill", "red"), Attr("d", "M0")>>, "self")
FillPathPaired == Leaf("path", <<Attr("d", "M0"), Attr("fill", "red")>>, "pair")
EmptyIdPath == Leaf("path", <<Attr("d", "M0"), Attr("id", "")>>, "self")
IdPathA == Leaf("path", <<Attr("id", "a"), Attr("d", "M0")>>, "self")
IdPathB == Leaf("path", <<Attr("id", "b"), Attr("d", "M0")>>, "self")
StrokePath == Leaf("path", <<Attr("d", "M0"), Attr("stroke", "red")>>, "self")
HalfOpaquePath == Leaf("path", <<Attr("d", "M0"), Attr("opacity", "0.5")>>, "self")
OpaqueCircle == Leaf("circle", <<Attr("r", "1"), Attr("opacity", "1")>>, "self")
UrlRect == Leaf("rect", <<Attr("fill", "url(#a)")>>, "self")
NestedGroup == Group("g", <<Group("g", <<>>)>>)
PathGroup == Group("g", <<FillPath>>)

ElemPool ==
  {FillPath, FillPathSwapped, FillPathPaired, EmptyIdPath, IdPathA, IdPathB, StrokePath,
   HalfOpaquePath, OpaqueCircle, UrlRect, NestedGroup, PathGroup}

SvgOpens == {"<svg>", "<svg width=\"24\" viewBox=\"0 0 10 10\" class=\"icon\">"}

\* most elements in the body of an input markup
MaxElems == 2

RECURSIVE SeqsUpTo(_, _)
\* every sequence of at most n elements of S
SeqsUpTo(S, n) ==
  IF n = 0 THEN {<<>>}
  ELSE LET P == SeqsUpTo(S, n - 1)
       IN P \cup {Append(q, x) : q \in P, x \in S}

SvgInputs == {[open |-> o, elems |-> q] : o \in SvgOpens, q \in SeqsUpTo(ElemPool, MaxElems)}

\* longest description string given to processTags
MaxTagLen == 5
TagAlphabet == {"a", "B", ",", " "}
TagInputs == StringsUpTo(TagAlphabet, MaxTagLen) \cup {"Navigation, Directional, left, left"}

\* longest base name given to toKebabCase
MaxNameLen == 3
NameAlphabet == {"a", "B", "1", " ", "_", "-", "!"}
NameInputs ==
  StringsUpTo(NameAlphabet, MaxNameLen) \cup {"arrowLeft Icon", "  Multi--Space  "}

-----------------------------------------------------------------------------
(* The canonicalizer exercised on its own: dedup, normalisation, and a     *)
(* second pass over the canonical form                                     *)

InitSvg ==
  /\ fop = "svg"
  /\ fin \in SvgInputs
  /\ fout = [dedup |-> "", canon |-> ""]
  /\ fout2 = ""
  /\ pc = "in"
  /\ RunIdle

\* const deduplicatedSvg = deduplicateSVG(trimmedSvg)
Deduplicate ==
  /\ fop = "svg" /\ pc = "in"
  /\ fout' = [fout EXCEPT !.dedup = deduplicateSVG(RenderSvg(fin))]
  /\ pc' = "deduped"
  /\ UNCHANGED <<fop, fin, fout2>>
  /\ RunUnchanged

\* const normalizedSvg = normalizeSVG(deduplicatedSvg)
Normalize ==
  /\ fop = "svg" /\ pc = "deduped"
  /\ fout' = [fout EXCEPT !.canon = normalizeSVG(fout.dedup)]
  /\ pc' = "canon"
  /\ UNCHANGED <<fop, fin, fout2>>
  /\ RunUnchanged

\* the canonical form is exported and canonicalized again
CanonicalizeAgain ==
  /\ fop = "svg" /\ pc = "canon"
  /\ fout2' = canonicalize(fout.canon)
  /\ pc' = "canon2"
  /\ UNCHANGED <<fop, fin, fout>>
  /\ RunUnchanged

NextSvg == Deduplicate \/ Normalize \/ CanonicalizeAgain

SpecSvg == InitSvg /\ [][NextSvg]_vars

-----------------------------------------------------------------------------
(* processTags exercised on its own                                        *)

InitTags ==
  /\ fop = "tags"
  /\ fin \in TagInputs
  /\ fout = <<>>
  /\ fout2 = <<>>
  /\ pc = "in"
  /\ RunIdle

ApplyProcessTags ==
  /\ fop = "tags" /\ pc = "in"
  /\ fout' = processTags(fin)
  /\ pc' = "out"
  /\ UNCHANGED <<fop, fin, fout2>>
  /\ RunUnchanged

NextTags == ApplyProcessTags

SpecTags == InitTags /\ [][NextTags]_vars

-----------------------------------------------------------------------------
(* toKebabCase exercised on its own, and on its own result                 *)

InitKebab ==
  /\ fop = "kebab"
  /\ fin \in NameInputs
  /\ fout = ""
  /\ fout2 = ""
  /\ pc = "in"
  /\ RunIdle

ApplyKebab ==
  /\ fop = "kebab" /\ pc = "in"
  /\ fout' = toKebabCase(fin)
  /\ pc' = "out"
  /\ UNCHANGED <<fop, fin, fout2>>
  /\ RunUnchanged

ApplyKebabAgain ==
  /\ fop = "kebab" /\ pc = "out"
  /\ fout2' = toKebabCase(fout)
  /\ pc' = "out2"
  /\ UNCHANGED <<fop, fin, fout>>
  /\ RunUnchanged

NextKebab == ApplyKebab \/ ApplyKebabAgain

SpecKebab == InitKebab /\ [][NextKebab]_vars

-----------------------------------------------------------------------------
(* generateHash exercised on its own, and again on the same text           *)

\* longest text of the enumerated inputs of generateHash
MaxHashLen == 3
HashAlphabet == {"a", "Z", "<", "~"}
HashInputs ==
  StringsUpTo(HashAlphabet, MaxHashLen)
    \cup {"<svg></svg>", "<svg viewBox=\"0 0 24 24\"><path d=\"M0\"/></svg>", "zzzzzz", "~~~~~~~"}

InitHash ==
  /\ fop = "hash"
  /\ fin \in HashInputs
  /\ fout = ""
  /\ fout2 = ""
  /\ pc = "in"
  /\ RunIdle

\* const hash = generateHash(normalizedSvg)
ApplyHash ==
  /\ fop = "hash" /\ pc = "in"
  /\ fout' = generateHash(fin)
  /\ pc' = "out"
  /\ UNCHANGED <<fop, fin, fout2>>
  /\ RunUnchanged

\* the same text is hashed in a later run
ApplyHashAgain ==
  /\ fop = "hash" /\ pc = "out"
  /\ fout2' = generateHash(fin)
  /\ pc' = "out2"
  /\ UNCHANGED <<fop, fin, fout>>
  /\ RunUnchanged

NextHash == ApplyHash \/ ApplyHashAgain

SpecHash == InitHash /\ [][NextHash]_vars

-----------------------------------------------------------------------------
(* normalizeSVG exercised on its own                                       *)

\* opening tags: without a viewBox, with another value, single-quoted,
\* unquoted, with space round the '=', in lower case, with unstable attributes
NormalizeOpens ==
  {"<svg>",
   "<svg width=\"24\"\n     height=\"24\">",
   "<svg viewBox=\"0 0 10 10\">",
   "<svg viewBox='0 0 10 10'>",
   "<svg viewBox=0,0,10,10>",
   "<svg viewBox = \"0 0 10 10\">",
   "<svg viewBox= \"0 0 10 10\">",
   "<svg viewbox=\"0 0 10 10\">",
   "<svg id=\"root\" class='icon' data-name=\"x\" viewBox=\"0 0 24 24\">",
   "<svg xmlns=\"http://www.w3.org/2000/svg\" fill=\"none\">"}

NormalizeBodies ==
  {"",
   "<path d=\"M0\"/>",
   "<path id=\"a\" class='b' data-x=\"1\" d=\"M0\"/>",
   "<g data-a = \"1\"   class = \"c\">\n  <path d=\"M0\"/>\n</g>",
   "<path id=a d=\"M0\"/>",
   "<symbol viewBox=\"0 0 1 1\"/>"}

NormalizeInputs == {open \o body \o "</svg>" : open \in NormalizeOpens, body \in NormalizeBodies}

InitNormalize ==
  /\ fop = "normalize"
  /\ fin \in NormalizeInputs
  /\ fout = ""
  /\ fout2 = ""
  /\ pc = "in"
  /\ RunIdle

\* const normalizedSvg = normalizeSVG(deduplicatedSvg)
ApplyNormalize ==
  /\ fop = "normalize" /\ pc = "in"
  /\ fout' = normalizeSVG(fin)
  /\ pc' = "out"
  /\ UNCHANGED <<fop, fin, fout2>>
  /\ RunUnchanged

NextNormalize == ApplyNormalize

SpecNormalize == InitNormalize /\ [][NextNormalize]_vars

-----------------------------------------------------------------------------
(* validateSVG exercised on its own                                        *)

ValidateSvgs ==
  {"<svg viewBox=\"0 0 24 24\"><path d=\"M0\"/></svg>",
   "<svg viewBox=\"0 0 24 24\"><path d=\"M0\" opacity=\"0.32\"/></svg>",
   "<svg viewBox=\"0 0 24 24\"><path d=\"M0\" fill=\"currentColor\" opacity=\"0.2\"/></svg>",
   "<svg viewBox=\"0 0 24 24\"><path d=\"M0\" fill=\"#fff\"/></svg>",
   "<svg viewBox=\"0 0 24 24\"><path d=\"M0\" fill=\"#1A2b3c\" opacity=\"0.32\"/></svg>",
   "<svg viewBox=\"0 0 24 24\"><path d=\"M0\" fill = '#0a0'/></svg>",
   "<svg viewBox=\"0 0 24 24\"><path d=\"M0\" fill=\"none\" stroke=\"#000\"/></svg>",
   "<svg viewBox=\"0 0 24 24\"><path d=\"M0\" fill=\"url(#a)\"/></svg>",
   "<svg viewBox=\"0 0 10 10\"><path d=\"M0\"/></svg>",
   "<svg viewBox=\"0 0 10 10\"><path d=\"M0\" fill=\"#fff\"/>",
   "<svg><svg viewBox=\"0 0 24 24\"></svg>",
   "<g viewBox=\"0 0 24 24\"></g></svg>",
   "<div></div>",
   ""}

ValidateInputs ==
  {[svg |-> svg, variant |-> [weight |-> weight, duotone |-> duotone]] :
     svg \in ValidateSvgs, weight \in {"Regular", "Bold", "Fill"}, duotone \in BOOLEAN}

InitValidate ==
  /\ fop = "validate"
  /\ fin \in ValidateInputs
  /\ fout = ValidationResult(<<>>)
  /\ fout2 = ""
  /\ pc = "in"
  /\ RunIdle

\* const validation = validateSVG(normalizedSvg, variant)
ApplyValidate ==
  /\ fop = "validate" /\ pc = "in"
  /\ fout' = validateSVG(fin.svg, fin.variant)
  /\ pc' = "out"
  /\ UNCHANGED <<fop, fin, fout2>>
  /\ RunUnchanged

NextValidate == ApplyValidate

SpecValidate == InitValidate /\ [][NextValidate]_vars

-----------------------------------------------------------------------------
(* deriveVariant                                                           *)

SCHEMA_VERSION == "2.0.0"
ALLOWED_WEIGHTS == <<"Regular", "Bold", "Fill">>

\* getProp of deriveVariant; null is written "" (every use tests truthiness)
getProp(props, propName) ==
  IF props.isNull THEN ""
  ELSE LET hits == {k \in 1..Len(props.kv) :
                      toLowerCase(props.kv[k][1]) = toLowerCase(propName)}
       IN IF hits = {} THEN "" ELSE props.kv[MinOf(hits)][2]

\* the if / else-if chains on 'bold', 'fill', 'regular' and 'line'
WeightFromText(lower, weight) ==
  IF includes(lower, "bold") THEN "Bold"
  ELSE IF includes(lower, "fill") THEN "Fill"
  ELSE IF includes(lower, "regular") \/ includes(lower, "line") THEN "Regular"
  ELSE weight

FirstTruthy(values) ==
  LET hits == {k \in 1..Len(values) : values[k] # ""}
  IN IF hits = {} THEN "" ELSE values[MinOf(hits)]

WeightOfValueAsWritten(normalizedWeight) ==
  LET allowed == {k \in 1..Len(ALLOWED_WEIGHTS) :
                    toLowerCase(ALLOWED_WEIGHTS[k]) = toLowerCase(normalizedWeight)}
  IN IF allowed # {} THEN normalizedWeight
     ELSE WeightFromText(toLowerCase(normalizedWeight), "Regular")

\* the weight for a trimmed property value
WeightOfValue(normalizedWeight) ==
  LET allowed == {k \in 1..Len(ALLOWED_WEIGHTS) :
                    toLowerCase(ALLOWED_WEIGHTS[k]) = toLowerCase(normalizedWeight)}
  IN IF allowed # {} THEN ALLOWED_WEIGHTS[MinOf(allowed)]
     ELSE WeightFromText(toLowerCase(normalizedWeight), "Regular")

WeightOfProperty(weightValue) ==
  IF weightValue # "" THEN WeightOfValue(trim(weightValue)) ELSE "Regular"

\* weight after the block "Extract weight from variant properties"
WeightFromProps(variantProps) ==
  WeightOfProperty(FirstTruthy(<<getProp(variantProps, "Weight"),
                                 getProp(variantProps, "Style"),
                                 getProp(variantProps, "Variant")>>))

DuotoneOfProperty(duotoneValue) ==
  duotoneValue # "" /\ toLowerCase(trim(duotoneValue)) \in {"true", "yes", "1"}

\* duotone after the block "Extract duotone from variant properties"
DuotoneFromProps(variantProps) == DuotoneOfProperty(getProp(variantProps, "Duotone"))

Last(q) == q[Len(q)]

\* the checks on lastPart
FromLastPart(lastPart, weight, duotone) ==
  [weight |-> WeightFromText(lastPart, weight),
   duotone |-> duotone \/ includes(lastPart, "duotone") \/ includes(lastPart, "tone")]

\* the loop over NAME_SEPARATORS of the fallback
FromSeparators(fullName, weight, duotone) ==
  LET seps == {k \in 1..Len(NAME_SEPARATORS) : includes(fullName, NAME_SEPARATORS[k])}
  IN IF seps = {} THEN [weight |-> weight, duotone |-> duotone]
     ELSE FromLastPart(toLowerCase(trim(Last(split(fullName, NAME_SEPARATORS[MinOf(seps)])))),
                       weight, duotone)

FromNameLower(fullName, nameLower, weight, duotone) ==
  FromSeparators(fullName,
                 WeightFromText(nameLower, weight),
                 duotone \/ includes(nameLower, "duotone") \/ includes(nameLower, "tone"))

\* the fallback of deriveVariant that reads the component name
FromName(fullName, weight, duotone) ==
  FromNameLower(fullName, toLowerCase(fullName), weight, duotone)

deriveVariant(component, baseName) ==
  LET variantProps == component.variantProperties
  IN IF variantProps.isNull THEN FromName(component.name, "Regular", FALSE)
     ELSE IF getProp(variantProps, "Weight") = "" /\ getProp(variantProps, "Duotone") = ""
     THEN FromName(component.name, WeightFromProps(variantProps), DuotoneFromProps(variantProps))
     ELSE [weight |-> WeightFromProps(variantProps), duotone |-> DuotoneFromProps(variantProps)]

-----------------------------------------------------------------------------
(* Component discovery and the duplicate check                             *)

IsComponent(node) == node.type = "COMPONENT"

NoScan == [components |-> <<>>, componentSets |-> <<>>]

RECURSIVE traverse(_)
RECURSIVE TraverseChildren(_, _)
\* traverse of getComponentsFromPage: what visiting node pushes, in order
traverse(node) ==
  LET own ==
        IF node.type = "COMPONENT"
        THEN [components |-> <<node>>, componentSets |-> <<>>]
        ELSE IF node.type = "COMPONENT_SET"
        THEN [components |-> SelectSeq(node.children, IsComponent),
              componentSets |-> <<node>>]
        ELSE NoScan
      below == TraverseChildren(node.children, 1)
  IN [components |-> own.components \o below.components,
      componentSets |-> own.componentSets \o below.componentSets]

TraverseChildren(children, k) ==
  IF k > Len(children) THEN NoScan
  ELSE LET head == traverse(children[k])
           rest == TraverseChildren(children, k + 1)
       IN [components |-> head.components \o rest.components,
           componentSets |-> head.componentSets \o rest.componentSets]

getComponentsFromPage(p) == traverse(p)

collectComponentSetChildIds(componentSets) ==
  {componentSets[s].children[c].id :
     <<s, c>> \in {sc \in (1..Len(componentSets)) \X (1..MaxOf({0} \cup {Len(componentSets[s].children) : s \in 1..Len(componentSets)})) :
                     /\ sc[2] <= Len(componentSets[sc[1]].children)
                     /\ IsComponent(componentSets[sc[1]].children[sc[2]])}}

\* components.filter(comp => !componentSetChildIds.has(comp.id))
\* the component list as the scan made it, set children included
SetChildrenIncluded(components, childIds) == components

NotSetChildren(components, childIds) ==
  LET Loose(comp) == comp.id \notin childIds
  IN SelectSeq(components, Loose)

RECURSIVE GroupFrom(_, _, _)
\* the groups object after the first k - 1 components, as its entries in key order
GroupFrom(components, k, groups) ==
  IF k > Len(components) THEN groups
  ELSE LET component == components[k]
           baseName == extractBaseName(component.name)
           at == {g \in 1..Len(groups) : groups[g][1] = baseName}
       IN GroupFrom(components, k + 1,
            IF at = {} THEN Append(groups, <<baseName, <<component>>>>)
            ELSE [groups EXCEPT ![MinOf(at)] = <<baseName, Append(groups[MinOf(at)][2], component)>>])

\* Object.entries(groupComponentsByBaseName(components)); the base names of the
\* modelled documents are not integers, so key order is insertion order
groupComponentsByBaseName(components) == GroupFrom(components, 1, <<>>)

\* bumpCount of checkForDuplicateNames on the entries of the nameCounts map
bumpCount(nameCounts, rawName) ==
  IF rawName = "" THEN nameCounts
  ELSE LET baseName == extractBaseName(rawName)
           at == {n \in 1..Len(nameCounts) : nameCounts[n][1] = baseName}
       IN IF at = {} THEN Append(nameCounts, <<baseName, 1>>)
          ELSE [nameCounts EXCEPT ![MinOf(at)] = <<baseName, nameCounts[MinOf(at)][2] + 1>>]

RECURSIVE BumpAll(_, _, _)
BumpAll(nameCounts, nodes, k) ==
  IF k > Len(nodes) THEN nameCounts
  ELSE BumpAll(bumpCount(nameCounts, nodes[k].name), nodes, k + 1)

\* the check with the standalone components left out of the count
checkSetNamesOnly(componentSets, components, precomputedChildIds) ==
  LET nameCounts == BumpAll(<<>>, componentSets, 1)
      Repeated(entry) == entry[2] > 1
      dups == SelectSeq(nameCounts, Repeated)
  IN [n \in 1..Len(dups) |-> dups[n][1]]

checkForDuplicateNames(componentSets, components, precomputedChildIds) ==
  LET afterSets == BumpAll(<<>>, componentSets, 1)
      nameCounts == BumpAll(afterSets, NotSetChildren(components, precomputedChildIds), 1)
      Repeated(entry) == entry[2] > 1
      dups == SelectSeq(nameCounts, Repeated)
  IN [n \in 1..Len(dups) |-> dups[n][1]]

-----------------------------------------------------------------------------
(* processIconGroup and saveIconsExport                                    *)

IsNameTagSeparator(c) == c \in {"-", "_"} \/ IsSpace(c)

\* baseName.split(/[-_\s]+/).filter(tag => tag.length > 0): the maximal runs
\* of characters that are no separator, in order
NameWords(baseName) ==
  LET starts == {i \in 1..Len(baseName) :
                   /\ ~IsNameTagSeparator(Char(baseName, i))
                   /\ (i = 1 \/ IsNameTagSeparator(Char(baseName, i - 1)))}
      EndOf(i) == MinOf({j \in i..Len(baseName) :
                           j = Len(baseName) \/ IsNameTagSeparator(Char(baseName, j + 1))})
      ordered == StableSort([n \in 1..Cardinality(starts) |->
                               CHOOSE i \in starts : Cardinality({j \in starts : j < i}) = n - 1],
                            <)
  IN [n \in 1..Len(ordered) |-> SubSeq(baseName, ordered[n], EndOf(ordered[n]))]

\* the description the tags are read from; descriptionMarkdown is empty in
\* the modelled documents
DescriptionOf(firstComponent) ==
  IF firstComponent.description # "" THEN firstComponent.description
  ELSE IF firstComponent.descriptionMarkdown # "" THEN firstComponent.descriptionMarkdown
  ELSE IF firstComponent.parent.type = "COMPONENT_SET"
  THEN IF firstComponent.parent.description # "" THEN firstComponent.parent.description
       ELSE firstComponent.parent.descriptionMarkdown
  ELSE ""

TagsStringOf(baseName, description) ==
  IF description = "" /\ baseName # ""
  THEN LET nameTags == join(TrimLowerAll(NameWords(baseName)), ", ")
       IN IF nameTags # "" THEN nameTags ELSE description
  ELSE description

NoVariant == [variant |-> [weight |-> "", duotone |-> FALSE], svg |-> "", hash |-> ""]
IsVariant(result) == result # NoVariant

\* one console.warn or console.error call: its text, the array logged with it
\* and the node it is made for (calls for different nodes of a group are made in
\* the order their exports complete, so the console is kept as a set)
LogEntry(level, text, detail, id) ==
  [level |-> level, text |-> text, detail |-> detail, about |-> id]

VariantText(variant) ==
  "(weight: \"" \o variant.weight \o "\", duotone: "
    \o (IF variant.duotone THEN "true" ELSE "false") \o ")"

\* the console calls of the iterator for a component whose export is usable
CheckedLogs(component, variant, trimmedSvg, validation) ==
  (IF ~endsWith(trimmedSvg, "</svg>")
   THEN {LogEntry("warn", "SVG for component " \o component.name
                    \o " may be incomplete - missing closing tag", <<>>, component.id)}
   ELSE {})
  \cup (IF ~validation.isValid
        THEN {LogEntry("warn", "SVG validation failed for variant " \o VariantText(variant) \o ":",
                       validation.errors, component.id)}
        ELSE {})

\* the console calls of the iterator passed to mapWithConcurrency
VariantLogs(component, baseName) ==
  IF \/ ~component.export.ok
     \/ component.export.text = ""
     \/ ~startsWith(trim(component.export.text), "<svg")
  THEN {LogEntry("error", "Failed to export variant " \o component.name \o ":", <<>>, component.id)}
  ELSE UNION {CheckedLogs(component, deriveVariant(component, baseName), trimmedSvg,
                          validateSVG(normalizeSVG(deduplicateSVG(trimmedSvg)),
                                      deriveVariant(component, baseName))) :
                trimmedSvg \in {trim(component.export.text)}}

\* the iterator with validation as a gate: a variant that fails it is dropped
ExportVariantGated(component, baseName) ==
  IF \/ ~component.export.ok
     \/ component.export.text = ""
     \/ ~startsWith(trim(component.export.text), "<svg")
  THEN NoVariant
  ELSE CHOOSE result \in
         {IF validateSVG(normalizedSvg, deriveVariant(component, baseName)).isValid
          THEN [variant |-> deriveVariant(component, baseName), svg |-> normalizedSvg,
                hash |-> generateHash(normalizedSvg)]
          ELSE NoVariant :
            normalizedSvg \in {normalizeSVG(deduplicateSVG(trim(component.export.text)))}} : TRUE

\* the iterator passed to mapWithConcurrency; NoVariant is its null
ExportVariant(component, baseName) ==
  LET variant == deriveVariant(component, baseName)
      svgString == component.export.text
      trimmedSvg == trim(svgString)
  IN IF ~component.export.ok \/ svgString = "" \/ ~startsWith(trimmedSvg, "<svg")
     THEN NoVariant
     ELSE CHOOSE result \in
            {[variant |-> variant, svg |-> normalizedSvg, hash |-> generateHash(normalizedSvg)] :
               normalizedSvg \in {normalizeSVG(deduplicateSVG(trimmedSvg))}} : TRUE

WeightRank(weight) ==
  CASE weight = "Regular" -> 0
    [] weight = "Bold" -> 1
    [] weight = "Fill" -> 2
    [] OTHER -> 999

\* the comparator of variants.sort, by weight only
WeightOnlyLess(a, b) == WeightRank(a.variant.weight) < WeightRank(b.variant.weight)

\* the comparator of variants.sort returns a negative number
VariantLess(a, b) ==
  LET weightDiff == WeightRank(a.variant.weight) - WeightRank(b.variant.weight)
  IN IF weightDiff # 0 THEN weightDiff < 0
     ELSE (IF a.variant.duotone THEN 1 ELSE 0) - (IF b.variant.duotone THEN 1 ELSE 0) < 0

\* variantResults when one failed export fails them all
VariantResultsAllOrNothing(baseName, components) ==
  IF \E n \in 1..Len(components) : ExportVariant(components[n], baseName) = NoVariant
  THEN [n \in 1..Len(components) |-> NoVariant]
  ELSE [n \in 1..Len(components) |-> ExportVariant(components[n], baseName)]

\* variantResults of processIconGroup: one result per component, by index
VariantResults(baseName, components) ==
  [n \in 1..Len(components) |-> ExportVariant(components[n], baseName)]

\* processIconGroup: whether it throws, the IconData it returns, what it logs,
\* and the components whose exportAsync it calls (in index order: the workers
\* of mapWithConcurrency take nextIndex++ and call the iterator at once)
processIconGroup(baseName, components) ==
  LET firstComponent == components[1]
  IN IF firstComponent.removed
     THEN [threw |-> TRUE, calls |-> <<>>, logs |-> {},
           icon |-> [name |-> "", tags |-> <<>>, variants |-> <<>>]]
     ELSE LET tags == processTags(TagsStringOf(baseName, DescriptionOf(firstComponent)))
              variants == SelectSeq(VariantResults(baseName, components), IsVariant)
          IN [threw |-> FALSE,
              calls |-> [n \in 1..Len(components) |-> components[n].id],
              logs |-> UNION {VariantLogs(components[n], baseName) : n \in 1..Len(components)},
              icon |-> [name |-> toKebabCase(baseName),
                        tags |-> tags,
                        variants |-> StableSort(variants, VariantLess)]]

\* the comparator of iconsData.sort turned round
NameGreater(a, b) == CodeLess(b.name, a.name)

\* a.name.localeCompare(b.name) < 0; names are kebab-case, where the order of
\* the collation is the order of the code units
NameLess(a, b) == CodeLess(a.name, b.name)

\* iconsData.sort(...) of saveIconsExport
SortedIcons(icons) == StableSort(icons, NameLess)

RECURSIVE VariantCount(_, _)
\* the variants of the icons from position k on
VariantCount(icons, k) ==
  IF k > Len(icons) THEN 0 ELSE Len(icons[k].variants) + VariantCount(icons, k + 1)

\* exportContent with totalIcons counting the variants
ExportContentCountingVariants(sortedIcons, now) ==
  [schemaVersion |-> SCHEMA_VERSION,
   exportedAt |-> now,
   totalIcons |-> VariantCount(sortedIcons, 1),
   icons |-> sortedIcons]

\* exportContent of saveIconsExport
ExportContent(sortedIcons, now) ==
  [schemaVersion |-> SCHEMA_VERSION,
   exportedAt |-> now,
   totalIcons |-> Len(sortedIcons),
   icons |-> sortedIcons]

-----------------------------------------------------------------------------
(* Documents                                                               *)

NoProps == [isNull |-> TRUE, kv |-> <<>>]
Props(kv) == [isNull |-> FALSE, kv |-> kv]
Exported(text) == [ok |-> TRUE, text |-> text]
ExportRejected == [ok |-> FALSE, text |-> ""]
NoParent == [type |-> "", description |-> "", descriptionMarkdown |-> ""]

Component(name, props, description, export) ==
  [type |-> "COMPONENT", id |-> "", name |-> name, variantProperties |-> props,
   description |-> description, descriptionMarkdown |-> "", export |-> export,
   removed |-> FALSE, parent |-> NoParent, children |-> <<>>]

\* a component the host has removed: reading its description throws
Removed(component) == [component EXCEPT !.removed = TRUE]

Container(type, name, description, kids) ==
  [type |-> type, id |-> "", name |-> name, variantProperties |-> NoProps,
   description |-> description, descriptionMarkdown |-> "", export |-> ExportRejected,
   removed |-> FALSE, parent |-> NoParent, children |-> kids]

Drawing(d) == Exported("<svg width=\"24\" height=\"24\" viewBox=\"0 0 24 24\"><path d=\"" \o d \o "\"/></svg>")

-----------------------------------------------------------------------------
(* deriveVariant exercised on its own                                      *)

VariantKeys == {"Weight", "weight", "STYLE", "Variant", "Duotone", "Size"}
VariantValues == {"Bold", " fill ", "REGULAR", "Heavy", "Boldface", "Outline", "true", ""}
VariantNames == {"", "star", "Star / Bold", "icon-duotone", "home_fill tone", "a=Line"}

VariantProps ==
  {NoProps, Props(<<>>)}
    \cup {Props(<<<<key, value>>>>) : key \in VariantKeys, value \in VariantValues}
    \cup {Props(<<<<key, value>>, <<"Duotone", flag>>>>) :
           key \in {"Weight", "Style"}, value \in VariantValues, flag \in {"true", " YES", "no", "1"}}

VariantInputs ==
  {Component(name, props, "", ExportRejected) : name \in VariantNames, props \in VariantProps}

InitVariant ==
  /\ fop = "variant"
  /\ fin \in VariantInputs
  /\ fout = [weight |-> "Regular", duotone |-> FALSE]
  /\ fout2 = ""
  /\ pc = "in"
  /\ RunIdle

\* const variant = deriveVariant(component, baseName)
ApplyDeriveVariant ==
  /\ fop = "variant" /\ pc = "in"
  /\ fout' = deriveVariant(fin, extractBaseName(fin.name))
  /\ pc' = "out"
  /\ UNCHANGED <<fop, fin, fout2>>
  /\ RunUnchanged

NextVariant == ApplyDeriveVariant

SpecVariant == InitVariant /\ [][NextVariant]_vars

RECURSIVE Placed(_, _, _)
\* node as it sits in the document: with its id, its parent, and its children placed
Placed(node, id, parent) ==
  [node EXCEPT
     !.id = id,
     !.parent = [type |-> parent.type, description |-> parent.description,
                 descriptionMarkdown |-> parent.descriptionMarkdown],
     !.children = [k \in 1..Len(node.children) |->
                     Placed(node.children[k], id \o ":" \o ToString(k), node)]]

StarSet ==
  Container("COMPONENT_SET", "star", "", <<
    Component("Weight=Bold, Duotone=true", Props(<<<<"Weight", "Bold">>, <<"Duotone", "true">>>>),
              "Shape, Favorite, shape", Drawing("M1")),
    Component("Weight=Fill, Duotone=false", Props(<<<<"weight", " fill">>, <<"Duotone", "false">>>>),
              "", Drawing("M2")),
    Component("Weight=Bold, Duotone=true", Props(<<<<"Weight", "bold">>, <<"Duotone", "Yes">>>>),
              "", Drawing("M3")),
    Component("Weight=Regular, Duotone=false", Props(<<<<"Weight", "Regular">>, <<"Duotone", "0">>>>),
              "", Drawing("M4")) >>)

\* two of its five components export well; the export of one is rejected, one
\* exports nothing and one exports markup that is no svg
OldStarSet ==
  Container("COMPONENT_SET", "star - old", "Legacy", <<
    Component("Style=Bold, Duotone", Props(<<<<"Style", "Bold">>>>), "", Drawing("M10")),
    Component("Style=Fill", Props(<<<<"Style", "Fill">>>>), "", ExportRejected),
    Component("Style=Regular", Props(<<<<"Style", "Regular">>>>), "", Exported("")),
    Component("Style=Line", Props(<<<<"Style", "Line">>>>), "", Exported(" <div>M12</div>")),
    Component("Style=Bold", Props(<<<<"Style", "Bold">>>>), "", Drawing("M11")) >>)

\* the export of the Bold component needs canonicalizing: outer white space, no
\* viewBox, an id
HeartSet ==
  Container("COMPONENT_SET", "heart", "", <<
    Component("Weight=Bold, Duotone=true", Props(<<<<"Weight", "Bold">>, <<"Duotone", "true">>>>),
              "", Exported("  <svg width=\"24\">\n<path id=\"a\" d=\"M13\"/></svg>\n")),
    Component("Weight=Regular, Duotone=false", Props(<<<<"Weight", "Regular">>, <<"Duotone", "false">>>>),
              "", Drawing("M14")) >>)

\* a set whose only component has been removed from the document
BrokenSet ==
  Container("COMPONENT_SET", "broken", "", <<
    Removed(Component("Weight=Bold", Props(<<<<"Weight", "Bold">>>>), "", Drawing("M15"))) >>)

OldStarBold == Component("star - old/bold", NoProps, "", Exported(""))
ArrowBold == Component("arrow/bold", NoProps, "", Drawing("M6"))
\* its export lacks the closing tag
ArrowFill == Component("arrow/fill", NoProps, "Direction", Exported("<svg><path d=\"M7\"/>"))
\* its export paints with a fixed colour
ArrowHeavy ==
  Component("arrow=Bold", NoProps, "",
            Exported("<svg viewBox=\"0 0 24 24\"><path d=\"M8\" fill=\"#1A2b3c\"/></svg>"))
LooseStar == Component("star", NoProps, "", Exported("<div></div>"))

EmptySet == Container("COMPONENT_SET", "empty", "", <<Container("FRAME", "note", "", <<>>)>>)

HeartFrame ==
  Container("FRAME", "drafts", "", <<
    Removed(Component("bad", NoProps, "", Drawing("M9"))),
    Component("heart - duotone", NoProps, "", ExportRejected) >>)

Single(name, d) ==
  Container("COMPONENT_SET", name, "", <<Component("Weight=Regular", NoProps, "", Drawing(d))>>)

\* enough sets and standalone groups for both loops of exportIcons to yield
Library ==
  Container("FRAME", "library", "", <<
    Single("sun", "M16"), Single("moon", "M17"), Single("cloud", "M18"),
    Component("rain", NoProps, "", Drawing("M19")),
    Component("snow", NoProps, "", Drawing("M20")),
    Component("wind", NoProps, "", Drawing("M21")),
    Component("fog", NoProps, "", Drawing("M22")),
    Component("hail/bold", NoProps, "", Drawing("M23")) >>)

\* a set and a standalone component whose names differ and read alike
Lookalikes ==
  Container("FRAME", "navigation", "", <<
    Single("Arrow Left", "M24"),
    Component("arrow-left", NoProps, "", Drawing("M25")) >>)

NodePool == {StarSet, OldStarSet, OldStarBold, ArrowBold, ArrowFill, ArrowHeavy,
             LooseStar, EmptySet, HeartFrame, HeartSet, BrokenSet, Library, Lookalikes}

MaxNodes == 2

PageOf(nodes) ==
  LET root == Container("PAGE", "Icons", "", nodes)
      placed == Placed(root, "0", NoParent)
  IN [exists |-> TRUE, name |-> root.name, type |-> "PAGE", children |-> placed.children]

Pages == {NoPage} \cup {PageOf(nodes) : nodes \in SeqsUpTo(NodePool, MaxNodes)}

\* the values new Date().toISOString() takes
Clock == {"2024-05-01T10:00:00.000Z", "2024-05-01T10:00:01.000Z"}

-----------------------------------------------------------------------------
(* The export run: figma.ui.onmessage and exportIcons                      *)

Message(type, message) == [type |-> type, message |-> message, data |-> <<>>]

SaveMessage(exportContent) ==
  [type |-> "save-icons-export", message |-> "",
   data |-> <<[document |-> exportContent, filename |-> "icons-export.json"]>>]

\* Math.round((done / total) * scale) for total > 0
RoundedShare(done, total, scale) == (2 * done * scale + total) \div (2 * total)

Init ==
  /\ fop = "run"
  /\ fin = ""
  /\ fout = ""
  /\ fout2 = ""
  /\ page \in Pages
  /\ pc = "idle"
  /\ msgs = <<>>
  /\ notes = <<>>
  /\ exportCalls = <<>>
  /\ scan = [components |-> <<>>, componentSets |-> <<>>, childIds |-> {}]
  /\ iconsData = <<>>
  /\ loopIdx = 0
  /\ entries = <<>>
  /\ individualProcessedCount = 0
  /\ console = {}
  /\ nextIndex = 0
  /\ results = <<>>
  /\ workers = <<>>
  /\ awaiting = ""

FunctionUnchanged == UNCHANGED <<fop, fin, fout, fout2, page, nextIndex, results, workers>>

\* the UI posts { type: 'export-icons' }: the handler calls exportIcons
ReceiveExportIcons ==
  /\ fop = "run" /\ pc = "idle"
  /\ pc' = "scan"
  /\ UNCHANGED <<msgs, notes, exportCalls, scan, iconsData, loopIdx, entries,
                 individualProcessedCount, console, awaiting>>
  /\ FunctionUnchanged

\* exportIcons up to the scan, when it throws, and the catch of the handler
ScanFails ==
  /\ fop = "run" /\ pc = "scan"
  /\ LET found == getComponentsFromPage(page)
     IN \/ /\ ~page.exists
           /\ msgs' = Append(msgs, Message("error",
                "Error: No current page found. Please select a page with your icon components."))
        \/ /\ page.exists
           /\ Len(found.components) = 0 /\ Len(found.componentSets) = 0
           /\ msgs' = msgs \o <<
                Message("status", "Scanning page for icon components..."),
                Message("error", "Error: No components or component sets found on the current page \""
                  \o page.name \o "\". Please add some icon components to this page.")>>
  /\ pc' = "done"
  /\ UNCHANGED <<notes, exportCalls, scan, iconsData, loopIdx, entries,
                 individualProcessedCount, console, awaiting>>
  /\ FunctionUnchanged

\* exportIcons up to the scan of the page
Scan ==
  /\ fop = "run" /\ pc = "scan"
  /\ page.exists
  /\ LET found == getComponentsFromPage(page)
     IN /\ ~(Len(found.components) = 0 /\ Len(found.componentSets) = 0)
        /\ scan' = [components |-> found.components,
                    componentSets |-> found.componentSets,
                    childIds |-> collectComponentSetChildIds(found.componentSets)]
  /\ msgs' = Append(msgs, Message("status", "Scanning page for icon components..."))
  /\ pc' = "check"
  /\ UNCHANGED <<notes, exportCalls, iconsData, loopIdx, entries, individualProcessedCount,
                 console, awaiting>>
  /\ FunctionUnchanged

\* the duplicate check of exportIcons, and what follows it up to the set loop
DuplicateCheck ==
  /\ fop = "run" /\ pc = "check"
  /\ LET duplicateNames ==
           checkForDuplicateNames(scan.componentSets, scan.components, scan.childIds)
         duplicateLabel == IF Len(duplicateNames) > 1 THEN "Duplicates" ELSE "Duplicate"
         errorMessage == duplicateLabel \o ": " \o join(duplicateNames, ", ")
         totalItems == Len(scan.componentSets) + Len(scan.components)
     IN IF Len(duplicateNames) > 0
        THEN /\ notes' = Append(notes, errorMessage)
             /\ pc' = "returned"
             /\ UNCHANGED msgs
        ELSE /\ msgs' = msgs \o <<
                  Message("status", "Found " \o ToString(totalItems) \o " icon components to process..."),
                  Message("status", "Processing " \o ToString(Len(scan.componentSets)) \o " component sets...")>>
             /\ pc' = "sets"
             /\ UNCHANGED notes
  /\ loopIdx' = 0
  /\ UNCHANGED <<exportCalls, scan, iconsData, entries, individualProcessedCount, console, awaiting>>
  /\ FunctionUnchanged

\* the catch of a loop round returns from exportIcons
LoopReturnsOnThrow(threw) ==
  IF threw THEN pc' = "returned" /\ UNCHANGED loopIdx
  ELSE loopIdx' = loopIdx + 1 /\ UNCHANGED pc

\* the end of a round of the set loop and of the group loop: whether or not
\* processIconGroup threw (the catch only logs), the loop goes on
LoopContinues(threw) == loopIdx' = loopIdx + 1 /\ UNCHANGED pc

\* the end of a loop round: if ((index + 1) % every === 0) await yieldToFigma()
LoopYields(index, every) ==
  awaiting' = IF (index + 1) % every = 0 THEN "yield" ELSE ""

\* the timer of yieldToFigma never fires
TimerNeverFires == FALSE

\* setTimeout(() => resolve(), ms) of yieldToFigma: the timer can fire
TimerPending == awaiting = "yield"

\* the timer of yieldToFigma fires and the loop of exportIcons goes on
LoopResumes ==
  /\ fop = "run" /\ TimerPending
  /\ awaiting' = ""
  /\ UNCHANGED <<pc, msgs, notes, exportCalls, scan, iconsData, loopIdx, entries,
                 individualProcessedCount, console>>
  /\ FunctionUnchanged

\* one round of the loop over the component sets
ProcessSet ==
  /\ fop = "run" /\ pc = "sets" /\ awaiting = ""
  /\ loopIdx < Len(scan.componentSets)
  /\ LoopYields(loopIdx, 3)
  /\ LET componentSet == scan.componentSets[loopIdx + 1]
         setName == componentSet.name
         total == ToString(Len(scan.componentSets))
         processedCount == Len(iconsData)
         starting == Message("progress", "Processing component set: " \o setName \o " ("
                       \o ToString(processedCount + 1) \o "/" \o total \o ")")
         variantComponents == SelectSeq(componentSet.children, IsComponent)
         percentage == RoundedShare(processedCount + 1, Len(scan.componentSets), 50)
     IN IF Len(variantComponents) > 0
        THEN \E result \in {processIconGroup(setName, variantComponents)} :
             /\ LoopContinues(result.threw)
             /\ IF ~result.threw
               THEN /\ iconsData' = Append(iconsData, result.icon)
                    /\ exportCalls' = exportCalls \o result.calls
                    /\ console' = console \cup result.logs
                    /\ msgs' = msgs \o <<starting,
                         Message("progress", "Processed " \o ToString(processedCount + 1) \o "/" \o total
                           \o " component sets (" \o ToString(percentage) \o "%)")>>
               ELSE /\ msgs' = Append(msgs, starting)
                    /\ console' = console \cup
                         {LogEntry("error", "Failed to process component set " \o setName \o ":",
                                   <<>>, componentSet.id)}
                    /\ UNCHANGED <<iconsData, exportCalls>>
        ELSE /\ LoopContinues(FALSE)
             /\ msgs' = Append(msgs, starting)
             /\ UNCHANGED <<iconsData, exportCalls, console>>
  /\ UNCHANGED <<notes, scan, entries, individualProcessedCount>>
  /\ FunctionUnchanged

\* the standalone components are grouped while component sets are still waiting
GroupIndividualsEarly ==
  /\ fop = "run" /\ pc = "sets" /\ awaiting = ""
  /\ loopIdx <= Len(scan.componentSets)
  /\ LET individualComponents == NotSetChildren(scan.components, scan.childIds)
     IN IF Len(individualComponents) > 0
        THEN /\ msgs' = Append(msgs, Message("status", "Processing "
                  \o ToString(Len(individualComponents)) \o " individual components..."))
             /\ entries' = groupComponentsByBaseName(individualComponents)
        ELSE UNCHANGED <<msgs, entries>>
  /\ loopIdx' = 0
  /\ pc' = "groups"
  /\ UNCHANGED <<notes, exportCalls, scan, iconsData, individualProcessedCount, console, awaiting>>
  /\ FunctionUnchanged

\* after the set loop: the standalone components are grouped
GroupIndividuals ==
  /\ fop = "run" /\ pc = "sets" /\ awaiting = ""
  /\ loopIdx = Len(scan.componentSets)
  /\ LET individualComponents == NotSetChildren(scan.components, scan.childIds)
     IN IF Len(individualComponents) > 0
        THEN /\ msgs' = Append(msgs, Message("status", "Processing "
                  \o ToString(Len(individualComponents)) \o " individual components..."))
             /\ entries' = groupComponentsByBaseName(individualComponents)
        ELSE UNCHANGED <<msgs, entries>>
  /\ loopIdx' = 0
  /\ pc' = "groups"
  /\ UNCHANGED <<notes, exportCalls, scan, iconsData, individualProcessedCount, console, awaiting>>
  /\ FunctionUnchanged

\* one round of the loop over the groups of standalone components
ProcessGroup ==
  /\ fop = "run" /\ pc = "groups" /\ awaiting = ""
  /\ loopIdx < Len(entries)
  /\ LoopYields(loopIdx, 5)
  /\ LET baseName == entries[loopIdx + 1][1]
         componentGroup == entries[loopIdx + 1][2]
         totalGroups == Len(entries)
         starting == Message("progress", "Processing group: " \o baseName \o " ("
                       \o ToString(individualProcessedCount + 1) \o "/" \o ToString(totalGroups) \o ")")
         totalPercentage == 50 + RoundedShare(individualProcessedCount + 1, totalGroups, 40)
     IN \E result \in {processIconGroup(baseName, componentGroup)} :
        /\ LoopContinues(result.threw)
        /\ IF ~result.threw
          THEN /\ iconsData' = Append(iconsData, result.icon)
               /\ exportCalls' = exportCalls \o result.calls
               /\ console' = console \cup result.logs
               /\ individualProcessedCount' = individualProcessedCount + 1
               /\ msgs' = msgs \o <<starting,
                    Message("progress", "Processed " \o ToString(individualProcessedCount + 1) \o "/"
                      \o ToString(totalGroups) \o " individual groups (" \o ToString(totalPercentage) \o "%)")>>
          ELSE /\ msgs' = Append(msgs, starting)
               /\ console' = console \cup
                    {LogEntry("error", "Failed to process icon group " \o baseName \o ":",
                              <<>>, componentGroup[1].id)}
               /\ UNCHANGED <<iconsData, exportCalls, individualProcessedCount>>
  /\ UNCHANGED <<notes, scan, entries>>
  /\ FunctionUnchanged

\* the end of exportIcons: saveIconsExport and the closing messages
Save ==
  /\ fop = "run" /\ pc = "groups" /\ awaiting = ""
  /\ loopIdx = Len(entries)
  /\ \E now \in Clock :
       \E sortedIcons \in {SortedIcons(iconsData)} :
          /\ iconsData' = sortedIcons
          /\ msgs' = msgs \o <<
               Message("status", "Generating JSON export file..."),
               Message("progress", "Generating JSON export (90%)"),
               SaveMessage(ExportContent(sortedIcons, now)),
               Message("progress", "Export complete (100%)"),
               Message("success", "Successfully exported " \o ToString(Len(sortedIcons)) \o " icons")>>
  /\ pc' = "returned"
  /\ UNCHANGED <<notes, exportCalls, scan, loopIdx, entries, individualProcessedCount,
                 console, awaiting>>
  /\ FunctionUnchanged

\* exportIcons has returned: the handler posts its own success message
HandlerReturn ==
  /\ fop = "run" /\ pc = "returned"
  /\ msgs' = Append(msgs, Message("success", "Icons exported successfully!"))
  /\ pc' = "done"
  /\ UNCHANGED <<notes, exportCalls, scan, iconsData, loopIdx, entries,
                 individualProcessedCount, console, awaiting>>
  /\ FunctionUnchanged

Next ==
  \/ ReceiveExportIcons
  \/ ScanFails
  \/ Scan
  \/ DuplicateCheck
  \/ ProcessSet
  \/ GroupIndividuals
  \/ ProcessGroup
  \/ LoopResumes
  \/ Save
  \/ HandlerReturn

Spec == Init /\ [][Next]_vars

-----------------------------------------------------------------------------
(* mapWithConcurrency, worker by worker                                    *)

EXPORT_CONCURRENCY == 4
YIELD_FREQUENCY == 5

\* an empty slot of new Array(items.length)
Unset == [variant |-> [weight |-> "", duotone |-> FALSE], svg |-> "", hash |-> "unset"]

\* the components of a set of the pool, placed on a page of their own
PlacedComponents(set) == SelectSeq(PageOf(<<set>>).children[1].children, IsComponent)

\* the calls processIconGroup makes: mapWithConcurrency(components,
\* EXPORT_CONCURRENCY, iterator); other limits show Math.max and Math.min
PoolLimits == {0, 1, 2, EXPORT_CONCURRENCY}
PoolInputs ==
  {[baseName |-> set.name, components |-> PlacedComponents(set), limit |-> limit] :
     set \in {OldStarSet, HeartSet}, limit \in PoolLimits}
    \cup {[baseName |-> "none", components |-> <<>>, limit |-> limit] : limit \in PoolLimits}

Max(a, b) == IF a > b THEN a ELSE b
Min(a, b) == IF a < b THEN a ELSE b

\* one worker for every item, whatever the limit
ConcurrencyPerItem(limit, items) == Max(1, Len(items))

\* const concurrency = Math.max(1, Math.min(limit, items.length))
Concurrency(limit, items) == Max(1, Min(limit, Len(items)))

Ready == [status |-> "ready", currentIndex |-> 0, value |-> Unset]

InitPool ==
  /\ fop = "pool"
  /\ fin \in PoolInputs
  /\ fout = <<>>
  /\ fout2 = ""
  /\ pc = "in"
  /\ RunIdle

PoolUnchanged ==
  UNCHANGED <<fop, fin, fout2, page, msgs, notes, scan, iconsData, loopIdx, entries,
              individualProcessedCount, console, awaiting>>

\* mapWithConcurrency up to await Promise.all(workers); no worker has run yet
StartPool ==
  /\ fop = "pool" /\ pc = "in"
  /\ IF Len(fin.components) = 0
     THEN /\ pc' = "out"
          /\ fout' = <<>>
          /\ UNCHANGED <<nextIndex, results, workers>>
     ELSE /\ pc' = "running"
          /\ nextIndex' = 0
          /\ results' = [n \in 1..Len(fin.components) |-> Unset]
          /\ workers' = [w \in 1..Concurrency(fin.limit, fin.components) |-> Ready]
          /\ UNCHANGED fout
  /\ UNCHANGED exportCalls
  /\ PoolUnchanged

\* a worker calls the iterator for the item at the cursor and leaves the cursor
ClaimWithoutAdvance(w) ==
  /\ fop = "pool" /\ pc = "running"
  /\ workers[w].status = "ready"
  /\ nextIndex < Len(fin.components)
  /\ Len(exportCalls) <= Len(fin.components)
  /\ workers' = [workers EXCEPT ![w] = [status |-> "exporting", currentIndex |-> nextIndex,
                                         value |-> Unset]]
  /\ exportCalls' = Append(exportCalls, fin.components[nextIndex + 1].id)
  /\ UNCHANGED <<pc, fout, results, nextIndex>>
  /\ PoolUnchanged

\* a worker finds nextIndex < items.length, takes nextIndex++ and calls the
\* iterator, which runs up to its await of component.exportAsync
Claim(w) ==
  /\ fop = "pool" /\ pc = "running"
  /\ workers[w].status = "ready"
  /\ nextIndex < Len(fin.components)
  /\ nextIndex' = nextIndex + 1
  /\ workers' = [workers EXCEPT ![w] = [status |-> "exporting", currentIndex |-> nextIndex,
                                         value |-> Unset]]
  /\ exportCalls' = Append(exportCalls, fin.components[nextIndex + 1].id)
  /\ UNCHANGED <<pc, fout, results>>
  /\ PoolUnchanged

\* exportAsync settles and the iterator runs on: to its return, or to
\* await yieldToFigma() when it has a variant and (index + 1) % YIELD_FREQUENCY === 0
ExportSettles(w) ==
  /\ fop = "pool" /\ pc = "running"
  /\ workers[w].status = "exporting"
  /\ \E value \in {ExportVariant(fin.components[workers[w].currentIndex + 1], fin.baseName)} :
       workers' = [workers EXCEPT ![w] =
                     [status |-> IF IsVariant(value)
                                    /\ (workers[w].currentIndex + 1) % YIELD_FREQUENCY = 0
                                 THEN "yielding" ELSE "settled",
                      currentIndex |-> workers[w].currentIndex,
                      value |-> value]]
  /\ UNCHANGED <<pc, fout, nextIndex, results, exportCalls>>
  /\ PoolUnchanged

\* the timer of yieldToFigma fires and the iterator returns
YieldResumes(w) ==
  /\ fop = "pool" /\ pc = "running"
  /\ workers[w].status = "yielding"
  /\ workers' = [workers EXCEPT ![w].status = "settled"]
  /\ UNCHANGED <<pc, fout, nextIndex, results, exportCalls>>
  /\ PoolUnchanged

\* the worker puts the value in the first empty slot: results.push(...)
WriteResultInCompletionOrder(w) ==
  /\ fop = "pool" /\ pc = "running"
  /\ workers[w].status = "settled"
  /\ \E slot \in {n \in 1..Len(results) :
                     results[n] = Unset /\ \A m \in 1..(n - 1) : results[m] # Unset} :
       results' = [results EXCEPT ![slot] = workers[w].value]
  /\ workers' = [workers EXCEPT ![w] = Ready]
  /\ UNCHANGED <<pc, fout, nextIndex, exportCalls>>
  /\ PoolUnchanged

\* results[currentIndex] = await iterator(...): the worker resumes
WriteResult(w) ==
  /\ fop = "pool" /\ pc = "running"
  /\ workers[w].status = "settled"
  /\ results' = [results EXCEPT ![workers[w].currentIndex + 1] = workers[w].value]
  /\ workers' = [workers EXCEPT ![w] = Ready]
  /\ UNCHANGED <<pc, fout, nextIndex, exportCalls>>
  /\ PoolUnchanged

\* a worker finds nextIndex < items.length false and ends
WorkerEnds(w) ==
  /\ fop = "pool" /\ pc = "running"
  /\ workers[w].status = "ready"
  /\ ~(nextIndex < Len(fin.components))
  /\ workers' = [workers EXCEPT ![w].status = "ended"]
  /\ UNCHANGED <<pc, fout, nextIndex, results, exportCalls>>
  /\ PoolUnchanged

\* the pool returns as soon as one worker has ended
PoolReturnsOnFirst ==
  /\ fop = "pool" /\ pc = "running"
  /\ \E w \in 1..Len(workers) : workers[w].status = "ended"
  /\ fout' = results
  /\ pc' = "out"
  /\ UNCHANGED <<nextIndex, results, workers, exportCalls>>
  /\ PoolUnchanged

\* Promise.all(workers) resolves; return results
PoolReturns ==
  /\ fop = "pool" /\ pc = "running"
  /\ \A w \in 1..Len(workers) : workers[w].status = "ended"
  /\ fout' = results
  /\ pc' = "out"
  /\ UNCHANGED <<nextIndex, results, workers, exportCalls>>
  /\ PoolUnchanged

NextPool ==
  \/ StartPool
  \/ \E w \in 1..Len(workers) : Claim(w)
  \/ \E w \in 1..Len(workers) : ExportSettles(w)
  \/ \E w \in 1..Len(workers) : YieldResumes(w)
  \/ \E w \in 1..Len(workers) : WriteResult(w)
  \/ \E w \in 1..Len(workers) : WorkerEnds(w)
  \/ PoolReturns

SpecPool == InitPool /\ [][NextPool]_vars

\* a run of the plugin, or one call of mapWithConcurrency with its workers:
\* every place where the schedule has a choice
InitSched == Init \/ InitPool
NextSched == Next \/ NextPool
SpecSched == InitSched /\ [][NextSched]_vars

\* a step of the run or of the pool can be taken: the handler has code to run
\* (exportIcons between two awaits), the timer of a yield can fire, or the
\* pool has a worker to run, an export to settle or its return to make
CanMove ==
  \/ fop = "run" /\ pc \in {"idle", "scan", "check", "returned"}
  \/ fop = "run" /\ pc \in {"sets", "groups"} /\ (awaiting = "" \/ TimerPending)
  \/ fop = "pool" /\ pc \in {"in", "running"}

\* what every step of Next and of NextPool changes: the position, a loop
\* index, the suspension, the cursor or a worker
control == <<pc, loopIdx, awaiting, nextIndex, workers>>

\* such a step: control changes while a step can be taken (the first
\* disjunct is the change of the position alone, the second every other)
Moves ==
  /\ CanMove
  /\ \/ /\ \E position \in {"scan", "check", "sets", "groups", "returned", "done", "running", "out"} :
            pc' = position /\ position # pc
        /\ UNCHANGED <<loopIdx, awaiting, nextIndex, workers>>
     \/ <<loopIdx, awaiting, nextIndex, workers>>' # <<loopIdx, awaiting, nextIndex, workers>>

\* the same, where a step that can be taken is taken in the end: the event
\* loop runs a continuation that is ready, every exportAsync call settles
\* and every timer of yieldToFigma fires
SpecLive == SpecSched /\ WF_control(Moves)

-----------------------------------------------------------------------------
(* Properties of the canonicalizer                                         *)

\* number of positions of text at which sub occurs
CountOcc(text, sub) == Cardinality({k \in 1..Len(text) : MatchAt(text, sub, k)})

Range(q) == {q[n] : n \in 1..Len(q)}
AttrNames(e) == {e.attrs[n][1] : n \in 1..Len(e.attrs)}
AttrValue(e, name) == Lookup(e.attrs, name)
OpacityFamily == {"opacity", "fill-opacity", "stroke-opacity"}
\* the risky attributes as the specification lists them
ListedRisky == {"id", "class", "style", "filter", "mask", "clip-path", "transform"}

\* an element the specification makes eligible for removal
Eligible(e) ==
  /\ e.kids = <<>>
  /\ e.tag \in SHAPE_TAGS
  /\ AttrNames(e) \cap ListedRisky = {}
  /\ \A n \in 1..Len(e.attrs) : ~includes(e.attrs[n][2], "url(#")
  /\ \A o \in OpacityFamily \cap AttrNames(e) : AttrValue(e, o) \in {"0", "1"}
  /\ ("stroke" \in AttrNames(e) => AttrValue(e, "stroke") = "none")

\* identical tag and attribute set, in any attribute order
SameShape(e, f) == e.tag = f.tag /\ Range(e.attrs) = Range(f.attrs)

\* the elements of an input at the top level of the body, and all of them
TopLevel(in) == Range(in.elems)
Nested(in) == UNION {Range(e.kids) : e \in TopLevel(in)}

\* C4: canonicalization is idempotent: canonicalizing the canonical form of any
\* markup, also one whose duplicate shapes carry id or class attributes that
\* the first pass strips, returns it unchanged.
C4_CanonicalizeIdempotent ==
  (fop = "svg" /\ pc = "canon2") => fout2 = fout.canon

\* C5: of the top-level elements that are eligible (leaf shape, self-closing or
\* empty-paired, no risky attribute, no url(# reference, opacity 0 or 1, stroke
\* absent or none) and share tag and attribute set, deduplicateSVG keeps exactly
\* one, the first.  Stated for inputs in which no such element also occurs nested.
C5_DedupRemovesEligible ==
  (fop = "svg" /\ pc # "in") =>
    \A n \in 1..Len(fin.elems) :
      LET e == fin.elems[n]
          class == {k \in 1..Len(fin.elems) : SameShape(fin.elems[k], e)}
          texts == {Render(fin.elems[k]) : k \in class}
          first == fin.elems[MinOf(class)]
          kept == {<<t, k>> \in texts \X (1..Len(fout.dedup)) : MatchAt(fout.dedup, t, k)}
      IN (/\ \A k \in class : Eligible(fin.elems[k])
          /\ \A f \in Nested(fin) : ~SameShape(f, e))
         => /\ Cardinality(kept) = 1
            /\ CountOcc(fout.dedup, Render(first)) = 1

\* C6: an element that is not eligible (child content, non-shape tag, a risky
\* attribute present with any value, a url(# reference, an opacity other than
\* 0 or 1, a stroke other than none) is in the output of deduplicateSVG
\* verbatim, as many times as in the input, also when duplicated or nested
\* inside an element of the same tag name.
C6_DedupKeepsIneligible ==
  (fop = "svg" /\ pc # "in") =>
    \A e \in TopLevel(fin) \cup Nested(fin) :
      ~Eligible(e) =>
        CountOcc(fout.dedup, Render(e)) = CountOcc(RenderSvg(fin), Render(e))

-----------------------------------------------------------------------------
(* Properties of processTags                                               *)

\* the comma-separated pieces of a string: the text between two neighbouring
\* separators (the ends of the string counting as separators)
CommaPieces(str) ==
  LET cuts == {0, Len(str) + 1} \cup {i \in 1..Len(str) : Char(str, i) = ","}
  IN {SubSeq(str, a + 1, b - 1) :
        <<a, b>> \in {c \in cuts \X cuts : c[1] < c[2] /\ \A m \in cuts : ~(c[1] < m /\ m < c[2])}}

\* C9: processTags returns entries that are non-empty, trimmed and lowercase,
\* pairwise different and in ascending order of code units, and whose set is
\* the set of trimmed lowercased non-empty comma-separated pieces of the input;
\* "Navigation, Directional, left, left" yields [directional, left, navigation].
C9_TagsNormalized ==
  (fop = "tags" /\ pc = "out") =>
    /\ \A k \in 1..Len(fout) :
         /\ Len(fout[k]) > 0
         /\ ~IsSpace(Char(fout[k], 1)) /\ ~IsSpace(Char(fout[k], Len(fout[k])))
         /\ \A i \in 1..Len(fout[k]) : Char(fout[k], i) \notin UpperSet
    /\ \A j, k \in 1..Len(fout) : j # k => fout[j] # fout[k]
    /\ \A k \in 1..(Len(fout) - 1) : CodeLess(fout[k], fout[k + 1])
    /\ Range(fout) = {toLowerCase(trim(piece)) : piece \in CommaPieces(fin)} \ {""}
    /\ (fin = "Navigation, Directional, left, left"
          => fout = <<"directional", "left", "navigation">>)

\* processTags has been applied to a description with spaces, capitals and a repeated tag
C9_Witness ==
  /\ fop = "tags" /\ pc = "out"
  /\ fin = "Navigation, Directional, left, left"
  /\ fout = <<"directional", "left", "navigation">>

-----------------------------------------------------------------------------
(* Properties of toKebabCase                                               *)

IsAlnum(c) == c \in LowerSet \cup UpperSet \cup DigitSet
IsSeparatorChar(c) == IsSpace(c) \/ c \in {"_", "-"}

\* the kebab-case form written out: the letters and digits of str, lowercased,
\* with one hyphen between two neighbouring ones exactly when white space, an
\* underscore or a hyphen lies between them in str or they are an adjacent
\* lowercase-uppercase pair
KebabExpected(str) ==
  LET at == {i \in 1..Len(str) : IsAlnum(Char(str, i))}
      next(i) == MinOf({j \in at : j > i})
      hyphen(i) ==
        /\ \E j \in at : j > i
        /\ \/ \E m \in (i + 1)..(next(i) - 1) : IsSeparatorChar(Char(str, m))
           \/ /\ next(i) = i + 1
              /\ Char(str, i) \in LowerSet
              /\ Char(str, i + 1) \in UpperSet
  IN Concat([i \in 1..Len(str) |->
       IF i \notin at THEN ""
       ELSE LowerChar(Char(str, i)) \o (IF hyphen(i) THEN "-" ELSE "")])

KebabShape(out) ==
  /\ \A i \in 1..Len(out) : Char(out, i) \in LowerSet \cup DigitSet \cup {"-"}
  /\ ~startsWith(out, "-")
  /\ ~endsWith(out, "-")
  /\ ~includes(out, "--")

\* lowercase-to-uppercase boundaries, and maximal runs of white space and underscores
CamelBoundaries(str) ==
  {i \in 1..(Len(str) - 1) : Char(str, i) \in LowerSet /\ Char(str, i + 1) \in UpperSet}
SpaceRuns(str) ==
  {i \in 1..Len(str) :
     /\ IsSpaceOrUnderscore(Char(str, i))
     /\ (i = 1 \/ ~IsSpaceOrUnderscore(Char(str, i - 1)))}

\* C10 (as amended): toKebabCase returns only a-z, 0-9 and hyphens, with no
\* leading, trailing or doubled hyphen; each lowercase-to-uppercase boundary
\* became one hyphen, and white space, underscores and hyphens lying between
\* two letters or digits became one hyphen together, while those before the
\* first or after the last letter or digit left none; toKebabCase of the
\* result is the result.
C10_KebabNormalForm ==
  /\ (fop = "kebab" /\ pc # "in") => (KebabShape(fout) /\ fout = KebabExpected(fin))
  /\ (fop = "kebab" /\ pc = "out2") => fout2 = fout

\* toKebabCase has turned a boundary and a run of separators into hyphens, and
\* was applied again to its result
C10_Witness ==
  /\ fop = "kebab" /\ pc = "out2"
  /\ fin = "arrowLeft Icon"
  /\ fout = "arrow-left-icon"

\* C10 (as stated): ... each lowercase-to-uppercase boundary and each run of
\* white space or underscores of the input became one hyphen of the result.
C10_EveryRunBecomesHyphen ==
  (fop = "kebab" /\ pc # "in") =>
    /\ KebabShape(fout)
    /\ CountOcc(fout, "-") >= Cardinality(CamelBoundaries(fin)) + Cardinality(SpaceRuns(fin))

-----------------------------------------------------------------------------
(* Properties of the export run                                            *)

RECURSIVE Descendants(_)
\* the nodes below node, in document order
Descendants(node) ==
  LET Under(k) == <<node.children[k]>> \o Descendants(node.children[k])
      RECURSIVE From(_)
      From(k) == IF k > Len(node.children) THEN <<>> ELSE Under(k) \o From(k + 1)
  IN From(1)

IsSet(node) == node.type = "COMPONENT_SET"
IsStandalone(node) == node.type = "COMPONENT" /\ node.parent.type # "COMPONENT_SET"
HasComponentChild(node) == \E k \in 1..Len(node.children) : IsComponent(node.children[k])

\* the component sets and the standalone components of the page, in document order
SetsOn(p) == SelectSeq(Descendants(p), IsSet)
StandaloneOn(p) == SelectSeq(Descendants(p), IsStandalone)

\* the base names under which the standalone components are grouped
StandaloneNames(p) == {extractBaseName(c.name) : c \in Range(StandaloneOn(p))}

\* the first component of a set, and of the standalone group of a base name
FirstOfSet(set) == set.children[MinOf({k \in 1..Len(set.children) : IsComponent(set.children[k])})]
FirstOfName(p, name) ==
  LET loose == StandaloneOn(p)
  IN loose[MinOf({k \in 1..Len(loose) : extractBaseName(loose[k].name) = name})]

\* base names shared by two groups: by two component sets, or by a component
\* set and a group of standalone components
ClashingNames(p) ==
  LET sets == SetsOn(p)
  IN {sets[k].name : k \in {k \in 1..Len(sets) :
        \/ \E j \in 1..Len(sets) : j # k /\ sets[j].name = sets[k].name
        \/ sets[k].name \in StandaloneNames(p)}}

SaveMessages == {k \in 1..Len(msgs) : msgs[k].type = "save-icons-export"}
SuccessMessages == {k \in 1..Len(msgs) : msgs[k].type = "success"}
DocumentAt(k) == msgs[k].data[1].document

\* C1: when two groups have the same base name (two component sets of one
\* name, or a component set named like the base name of a standalone
\* component), the run stops at the duplicate check: no save-icons-export
\* message is posted, exportAsync is never called, and figma.notify is called
\* exactly once, with a message that contains every such name.
C1_DuplicateGateAborts ==
  (fop = "run" /\ page.exists /\ ClashingNames(page) # {}) =>
    /\ SaveMessages = {}
    /\ exportCalls = <<>>
    /\ Len(notes) <= 1
    /\ pc \in {"sets", "groups", "returned", "done"} =>
         /\ Len(notes) = 1
         /\ \A name \in ClashingNames(page) : includes(notes[1], name)

\* C2: a success message is posted only after the run has posted
\* save-icons-export, and a run stopped by the duplicate check posts none.
C2_SuccessOnlyAfterSave ==
  fop = "run" =>
    /\ \A k \in SuccessMessages : \E j \in SaveMessages : j < k
    /\ notes # <<>> => SuccessMessages = {}

\* C3: the duplicate check stops a run only if two groups have the same base
\* name; standalone components that share one base name are one group, and
\* arrow/bold with arrow/fill is exported as one icon with two variants.
C3_AbortOnlyOnGroupClash ==
  (fop = "run" /\ page.exists) =>
    /\ notes # <<>> => ClashingNames(page) # {}
    /\ (page = PageOf(<<ArrowBold, ArrowFill>>) /\ pc = "done") =>
         \E k \in SaveMessages :
           /\ Len(DocumentAt(k).icons) = 1
           /\ DocumentAt(k).icons[1].name = "arrow"
           /\ Len(DocumentAt(k).icons[1].variants) = 2

\* every icon record of the state: those collected and those of a posted document
IconRecords ==
  Range(iconsData) \cup UNION {Range(DocumentAt(k).icons) : k \in SaveMessages}

VariantKey(v) == <<WeightRank(v.variant.weight), IF v.variant.duotone THEN 1 ELSE 0>>
KeyBefore(a, b) == a[1] < b[1] \/ (a[1] = b[1] /\ a[2] <= b[2])

\* the place in discovery order of the first component whose export has this canonical form
FirstExporter(svg) ==
  MinOf({k \in 1..Len(scan.components) :
           /\ scan.components[k].export.ok
           /\ canonicalize(trim(scan.components[k].export.text)) = svg})

\* C7: in every icon record the variants are ordered by weight, Regular before
\* Bold before Fill, and within one weight duotone false before true; variants
\* equal in both keep the order of their components.
C7_VariantsOrdered ==
  fop = "run" =>
    \A icon \in IconRecords :
      \A i, j \in 1..Len(icon.variants) :
        i < j =>
          LET a == icon.variants[i]
              b == icon.variants[j]
          IN /\ a.variant.weight \in {"Regular", "Bold", "Fill"}
             /\ KeyBefore(VariantKey(a), VariantKey(b))
             /\ (VariantKey(a) = VariantKey(b) /\ a.svg # b.svg)
                  => FirstExporter(a.svg) < FirstExporter(b.svg)

\* the variants of the set star have been collected: the Regular one, exported
\* last, comes first, and the two Bold duotone ones keep their order
C7_Witness ==
  /\ fop = "run" /\ pc = "done"
  /\ \E icon \in IconRecords :
       /\ icon.name = "star"
       /\ Len(icon.variants) = 4
       /\ includes(icon.variants[1].svg, "M4")
       /\ includes(icon.variants[2].svg, "M1")
       /\ includes(icon.variants[3].svg, "M3")
       /\ includes(icon.variants[4].svg, "M2")

\* the groups the run assembles: per component set with a component child and
\* per base name of the standalone components, whether reading the first
\* component throws
AssembledGroups(p) ==
  Cardinality({k \in 1..Len(SetsOn(p)) :
                 HasComponentChild(SetsOn(p)[k]) /\ ~FirstOfSet(SetsOn(p)[k]).removed})
  + Cardinality({name \in StandaloneNames(p) : ~FirstOfName(p, name).removed})

\* C8: in every posted document the icons are in ascending order of name,
\* totalIcons is the number of icons, and that is the number of groups
\* (component sets with a component child, and base-name groups of standalone
\* components) whose assembly did not throw.
C8_DocumentSortedAndCounted ==
  fop = "run" =>
    \A k \in SaveMessages :
      LET doc == DocumentAt(k)
      IN /\ \A n \in 1..(Len(doc.icons) - 1) : ~CodeLess(doc.icons[n + 1].name, doc.icons[n].name)
         /\ doc.totalIcons = Len(doc.icons)
         /\ Len(doc.icons) = AssembledGroups(page)

\* a document has been posted for a page on which discovery order is not name
\* order and the assembly of one group threw
C8_Witness ==
  /\ fop = "run"
  /\ page = PageOf(<<StarSet, HeartFrame>>)
  /\ \E k \in SaveMessages :
       /\ DocumentAt(k).totalIcons = 2
       /\ DocumentAt(k).icons[1].name = "heart"
       /\ DocumentAt(k).icons[2].name = "star"

-----------------------------------------------------------------------------
(* Properties of generateHash                                              *)

IsLowerHex(c) == \E k \in 1..Len(HexDigits) : Char(HexDigits, k) = c

RECURSIVE PlainFold(_, _, _)
\* h := 31 * h + code unit over positions i.. of text, in unbounded arithmetic
\* (exact for the texts of at most four code units, which do not wrap)
PlainFold(text, i, h) ==
  IF i > Len(text) THEN h
  ELSE PlainFold(text, i + 1, 31 * h + charCodeAt(Char(text, i)))

\* C11: for every input, the empty string included, generateHash returns
\* exactly 8 lowercase hexadecimal characters, the zero-padded absolute value of
\* the 32-bit accumulator, and the same text always gives the same result
C11_HashIsEightHex ==
  (fop = "hash" /\ pc \in {"out", "out2"}) =>
    /\ Len(fout) = 8
    /\ \A k \in 1..Len(fout) : IsLowerHex(Char(fout, k))
    /\ Len(fin) <= 4 => fout = padStart(ToHex(PlainFold(fin, 1, 0)), 8, "0")
    /\ pc = "out2" => fout2 = fout

-----------------------------------------------------------------------------
(* Properties of a run over a single component set                         *)

ComponentsOf(set) == SelectSeq(set.children, IsComponent)

\* the component carries the Weight and Duotone properties and its export is
\* non-empty markup that starts with <svg
WellFormedVariant(c) ==
  /\ ~c.removed
  /\ getProp(c.variantProperties, "Weight") # ""
  /\ getProp(c.variantProperties, "Duotone") # ""
  /\ c.export.ok
  /\ c.export.text # ""
  /\ startsWith(trim(c.export.text), "<svg")

\* the page holds one component set and nothing else, and every component of
\* the set is well formed
SoleSetPage(p) ==
  /\ p.exists
  /\ Len(p.children) = 1
  /\ IsSet(p.children[1])
  /\ Len(ComponentsOf(p.children[1])) >= 1
  /\ \A c \in Range(ComponentsOf(p.children[1])) : WellFormedVariant(c)

Descriptors(icon) == [n \in 1..Len(icon.variants) |-> icon.variants[n].variant]

\* C12: a run over a page that holds exactly one component set N with k
\* well-formed components ends with exactly one save-icons-export message; its
\* document has totalIcons = 1 and one icon named toKebabCase(N) with k
\* variants, each with a non-empty hash and the canonical form of a
\* component's export; for the set heart with {Bold, true} and {Regular, false}
\* the variants are Regular/false then Bold/true.
C12_OneSetOneIcon ==
  (fop = "run" /\ pc = "done" /\ SoleSetPage(page)) =>
    /\ Cardinality(SaveMessages) = 1
    /\ \A k \in SaveMessages :
         /\ DocumentAt(k).totalIcons = 1
         /\ Len(DocumentAt(k).icons) = 1
         /\ DocumentAt(k).icons[1].name = toKebabCase(page.children[1].name)
         /\ Len(DocumentAt(k).icons[1].variants) = Len(ComponentsOf(page.children[1]))
         /\ \A v \in Range(DocumentAt(k).icons[1].variants) :
              /\ v.hash # ""
              /\ includes(v.svg, "viewBox=\"0 0 24 24\"")
              /\ trim(v.svg) = v.svg
              /\ \E c \in Range(ComponentsOf(page.children[1])) :
                   v.svg = normalizeSVG(deduplicateSVG(trim(c.export.text)))
         /\ page.children[1].name = "heart" =>
              Descriptors(DocumentAt(k).icons[1]) =
                <<[weight |-> "Regular", duotone |-> FALSE], [weight |-> "Bold", duotone |-> TRUE]>>

\* the run over the page that holds the set heart has posted its document
C12_Witness ==
  /\ fop = "run" /\ pc = "done"
  /\ page = PageOf(<<HeartSet>>)
  /\ \E k \in SaveMessages :
       /\ DocumentAt(k).totalIcons = 1
       /\ DocumentAt(k).icons[1].name = "heart"
       /\ Descriptors(DocumentAt(k).icons[1]) =
            <<[weight |-> "Regular", duotone |-> FALSE], [weight |-> "Bold", duotone |-> TRUE]>>
       /\ DocumentAt(k).icons[1].variants[2].svg =
            "<svg width=\"24\" viewBox=\"0 0 24 24\"><path d=\"M13\"/></svg>"

-----------------------------------------------------------------------------
(* Properties of validation and of failures inside a run                   *)

\* the groups of the page as the run forms them: one per component set with a
\* component child, under the set name, and one per base name of the
\* standalone components
GroupsOn(p) ==
  {[baseName |-> set.name, components |-> ComponentsOf(set)] :
     set \in {t \in Range(SetsOn(p)) : HasComponentChild(t)}}
  \cup {[baseName |-> name,
          components |-> LET Named(c) == extractBaseName(c.name) = name
                         IN SelectSeq(StandaloneOn(p), Named)] :
          name \in StandaloneNames(p)}

\* assembling the group throws
Throws(g) == g.components[1].removed

\* the export of the component resolves with non-empty markup that starts with <svg
Usable(c) == c.export.ok /\ c.export.text # "" /\ startsWith(trim(c.export.text), "<svg")

\* the variant record a usable component gives
RecordOf(c, baseName) ==
  [variant |-> deriveVariant(c, baseName),
   svg |-> canonicalize(trim(c.export.text)),
   hash |-> generateHash(canonicalize(trim(c.export.text)))]

\* the record fails a check of the validator
FailsValidation(v) == ~validateSVG(v.svg, v.variant).isValid

\* C13: validation is advisory: in every posted document each usable component
\* of each assembled group is a variant of the group's icon, with its svg and
\* hash, whether or not its canonical svg passes the validator; validation
\* removes no variant and no icon.
C13_ValidationAdvisory ==
  fop = "run" =>
    \A k \in SaveMessages :
      \A g \in GroupsOn(page) :
        ~Throws(g) =>
          \E icon \in Range(DocumentAt(k).icons) :
            /\ icon.name = toKebabCase(g.baseName)
            /\ \A c \in Range(g.components) :
                 Usable(c) => RecordOf(c, g.baseName) \in Range(icon.variants)

\* a posted document holds a variant that fails validation, and the failure
\* has been logged
C13_Witness ==
  /\ fop = "run" /\ pc = "done"
  /\ \E k \in SaveMessages :
       \E icon \in Range(DocumentAt(k).icons) :
         \E v \in Range(icon.variants) :
           /\ FailsValidation(v)
           /\ \E e \in console : e.level = "warn" /\ e.detail = validateSVG(v.svg, v.variant).errors

-----------------------------------------------------------------------------
(* Properties of validateSVG                                               *)

\* the markup carries no opacity attribute at all, so no tone-opacity marker
LacksToneMarker(svg) == ~includes(svg, "opacity")

\* the markup holds fill = "#..." with a hexadecimal digit after the '#'
FixedHexFill(svg) ==
  \E i \in 1..Len(svg) :
    /\ MatchAt(svg, "fill", i)
    /\ \E j \in (i + 4)..Len(svg) :
         /\ trim(SubSeq(svg, i + 4, j)) = "="
         /\ j + 3 <= Len(svg)
         /\ Char(svg, j + 1) \in {"\"", "'"}
         /\ Char(svg, j + 2) = "#"
         /\ Char(svg, j + 3) \in CharsOf("0123456789abcdefABCDEF")

HexColourErrors(errors) == {n \in 1..Len(errors) : includes(errors[n], "fixed hex colors")}

\* the checks of the validator that the markup and the variant fail
FailingChecks(svg, variant) ==
  {check \in {"start", "end", "balance", "viewBox", "tone", "hex"} :
     CASE check = "start" -> ~startsWith(trim(svg), "<svg")
       [] check = "end" -> ~endsWith(trim(svg), "</svg>")
       [] check = "balance" ->
            CountOcc(toLowerCase(svg), "<svg") # CountOcc(toLowerCase(svg), "</svg>")
       [] check = "viewBox" -> ~includes(svg, "viewBox=\"0 0 24 24\"")
       [] check = "tone" -> variant.duotone /\ LacksToneMarker(svg)
       [] check = "hex" -> ~variant.duotone /\ FixedHexFill(svg)}

\* C14: validateSVG applies the colour policy by variant: a tone variant
\* (duotone = true) whose markup lacks the tone-opacity marker gets an error and
\* is not valid; a non-tone variant gets the hex-colour error exactly when its
\* markup holds a fixed hexadecimal fill; every failing check adds its own
\* error, and isValid holds exactly when there is no error.
C14_ColourPolicy ==
  (fop = "validate" /\ pc = "out") =>
    /\ (fin.variant.duotone /\ LacksToneMarker(fin.svg)) =>
         (fout.errors # <<>> /\ ~fout.isValid)
    /\ ~fin.variant.duotone => (HexColourErrors(fout.errors) # {} <=> FixedHexFill(fin.svg))
    /\ Len(fout.errors) = Cardinality(FailingChecks(fin.svg, fin.variant))
    /\ fout.isValid <=> fout.errors = <<>>

UsableOf(g) == SelectSeq(g.components, Usable)

ExportErrors == {e \in console : e.level = "error" /\ startsWith(e.text, "Failed to export variant ")}

\* C15: a component whose export is rejected, is empty or does not start with
\* <svg is left out of its icon's variants, and only it: the icon of every
\* assembled group has exactly one variant per usable component of the group,
\* and the group is assembled whatever its components' exports do.
C15_VariantIsolation ==
  fop = "run" =>
    \A k \in SaveMessages :
      \A g \in GroupsOn(page) :
        ~Throws(g) =>
          \E icon \in Range(DocumentAt(k).icons) :
            /\ icon.name = toKebabCase(g.baseName)
            /\ Len(icon.variants) = Len(UsableOf(g))
            /\ \A c \in Range(UsableOf(g)) : RecordOf(c, g.baseName) \in Range(icon.variants)
            /\ \A c \in Range(g.components) :
                 ~Usable(c) => \E e \in ExportErrors : e.about = c.id

\* the document of a page with the set star - old: of its five components the
\* two usable ones are the variants of its icon, and three failures are logged
C15_Witness ==
  /\ fop = "run" /\ pc = "done"
  /\ page = PageOf(<<OldStarSet>>)
  /\ Cardinality(ExportErrors) = 3
  /\ \E k \in SaveMessages :
       /\ DocumentAt(k).icons[1].name = "star-old"
       /\ Len(DocumentAt(k).icons[1].variants) = 2
       /\ includes(DocumentAt(k).icons[1].variants[1].svg, "M11")
       /\ includes(DocumentAt(k).icons[1].variants[2].svg, "M10")

ErrorMessages == {k \in 1..Len(msgs) : msgs[k].type = "error"}

\* the run has ended, and neither the scan nor the duplicate check ended it
RanToEnd == fop = "run" /\ pc = "done" /\ notes = <<>> /\ ErrorMessages = {}

GroupFailures == {e \in console : e.level = "error" /\ startsWith(e.text, "Failed to process ")}

\* the ids of the components of the groups
IdsOf(groups) == UNION {{c.id : c \in Range(g.components)} : g \in groups}

\* C16: a component set or a standalone group whose assembly throws does not
\* end the run: every other set and group is still processed (its components
\* are exported and its record is in the document), the failed group has no
\* record and none of its components is exported, and save-icons-export is
\* posted once.
C16_GroupIsolation ==
  RanToEnd =>
    LET failed == {g \in GroupsOn(page) : Throws(g)}
        assembled == {g \in GroupsOn(page) : ~Throws(g)}
    IN /\ Cardinality(SaveMessages) = 1
       /\ Range(exportCalls) = IdsOf(assembled)
       /\ Len(exportCalls) = Cardinality(IdsOf(assembled))
       /\ Cardinality(GroupFailures) = Cardinality(failed)
       /\ \A k \in SaveMessages :
            /\ Len(DocumentAt(k).icons) = Cardinality(assembled)
            /\ \A g \in assembled :
                 \E icon \in Range(DocumentAt(k).icons) :
                   /\ icon.name = toKebabCase(g.baseName)
                   /\ Len(icon.variants) = Len(UsableOf(g))
            /\ \A g \in failed :
                 (\A h \in assembled : toKebabCase(h.baseName) # toKebabCase(g.baseName))
                   => \A icon \in Range(DocumentAt(k).icons) : icon.name # toKebabCase(g.baseName)

\* the first set and the first standalone group of the page both failed, and the
\* document holds the record of the group processed after them
C16_Witness ==
  /\ RanToEnd
  /\ page = PageOf(<<BrokenSet, HeartFrame>>)
  /\ Cardinality(GroupFailures) = 2
  /\ exportCalls = <<"0:2:2">>
  /\ \E k \in SaveMessages :
       /\ DocumentAt(k).totalIcons = 1
       /\ DocumentAt(k).icons[1].name = "heart"

-----------------------------------------------------------------------------
(* Properties of the conditions that end a run                             *)

\* how many component sets and standalone components of the page have the base name
NameCount(p, name) ==
  Cardinality({k \in 1..Len(SetsOn(p)) : extractBaseName(SetsOn(p)[k].name) = name})
  + Cardinality({k \in 1..Len(StandaloneOn(p)) : extractBaseName(StandaloneOn(p)[k].name) = name})

NamesOn(p) ==
  {extractBaseName(node.name) : node \in Range(SetsOn(p)) \cup Range(StandaloneOn(p))}

\* the three conditions: no page, nothing to export on the page, and a base
\* name that the duplicate check counts more than once
NoPageOpen == ~page.exists
NothingOnPage == page.exists /\ \A node \in Range(Descendants(page)) : ~IsComponent(node) /\ ~IsSet(node)
DuplicatesDetected ==
  page.exists /\ ~NothingOnPage /\ \E name \in NamesOn(page) : NameCount(page, name) > 1

RunEnded == pc \in {"returned", "done"}

-----------------------------------------------------------------------------
(* Properties of normalizeSVG                                              *)

\* the opening tag of the markup: from its start to the first '>'
OpeningTag(svg) == SubSeq(svg, 1, IndexFrom(svg, ">", 1))

\* an attribute whose name starts with the word begins in the text
AttributeStarts(text, word) ==
  \E i \in 1..Len(text) : IsSpace(Char(text, i)) /\ MatchAt(text, word, i + 1)

\* C18: whatever viewBox the markup had (none, another value, single-quoted,
\* unquoted, with space round the '='), the opening svg tag of the result
\* of normalizeSVG carries the viewBox 0 0 24 24 and no other, and the result
\* holds no id, class or data-* attribute.
C18_ViewBoxForced ==
  (fop = "normalize" /\ pc = "out") =>
    /\ startsWith(fout, "<svg")
    /\ includes(OpeningTag(fout), "viewBox=\"0 0 24 24\"")
    /\ CountOcc(OpeningTag(fout), "viewBox") = 1
    /\ ~AttributeStarts(fout, "id")
    /\ ~AttributeStarts(fout, "class")
    /\ ~AttributeStarts(fout, "data-")

-----------------------------------------------------------------------------
(* Properties of deriveVariant                                             *)

CanonicalWeights == {"Regular", "Bold", "Fill"}
WeightWords == {"bold", "fill", "regular", "line"}
ToneWords == {"duotone", "tone"}

\* the values the component gives, to a name in any case, for a property
ValuesFor(component, propName) ==
  IF component.variantProperties.isNull THEN {}
  ELSE {pair[2] : pair \in {component.variantProperties.kv[k] :
                              k \in {j \in 1..Len(component.variantProperties.kv) :
                                       toLowerCase(component.variantProperties.kv[j][1]) = toLowerCase(propName)}}}

\* nothing in the properties or in the name says a weight or a tone
NoSignal(component) ==
  /\ \A propName \in {"Weight", "Style", "Variant", "Duotone"} : ValuesFor(component, propName) \subseteq {""}
  /\ \A word \in WeightWords \cup ToneWords : ~includes(toLowerCase(component.name), word)

\* C19: for any component deriveVariant returns a weight among Regular, Bold
\* and Fill and a boolean duotone; a Weight property that names one of the
\* three in any case gives that weight in canonical casing; without any
\* signal the result is Regular and not duotone.
C19_WeightCanonical ==
  (fop = "variant" /\ pc = "out") =>
    /\ fout.weight \in CanonicalWeights
    /\ fout.duotone \in BOOLEAN
    /\ \A weight \in CanonicalWeights :
         (\E value \in ValuesFor(fin, "Weight") : toLowerCase(trim(value)) = toLowerCase(weight))
           => fout.weight = weight
    /\ NoSignal(fin) => fout = [weight |-> "Regular", duotone |-> FALSE]

C19_Witness ==
  /\ fop = "variant" /\ pc = "out"
  /\ fin.name = "Star / Bold"
  /\ fin.variantProperties = Props(<<<<"weight", "REGULAR">>>>)
  /\ fout = [weight |-> "Regular", duotone |-> FALSE]

-----------------------------------------------------------------------------
(* Properties of the order of a run                                        *)

\* the steps between the positions of a run: the scan, the duplicate check,
\* the loop over the sets, the loop over the groups, the assembly and save,
\* the return; and the two early ends, the scan that fails and the abort
PhaseSteps ==
  {<<"idle", "scan">>, <<"scan", "check">>, <<"check", "sets">>, <<"sets", "groups">>,
   <<"groups", "returned">>, <<"returned", "done">>,
   <<"scan", "done">>, <<"check", "returned">>}

\* rounds of a loop that have begun, counted by their progress messages
RoundsStarted(posted, prefix) ==
  Cardinality({k \in 1..Len(posted) :
                 posted[k].type = "progress" /\ startsWith(posted[k].message, prefix)})

SetsAllProcessed == RoundsStarted(msgs, "Processing component set: ") = Len(SetsOn(page))
GroupsAllProcessed == RoundsStarted(msgs, "Processing group: ") = Cardinality(StandaloneNames(page))

StandaloneIds == {c.id : c \in Range(StandaloneOn(page))}
SetChildIds == UNION {{c.id : c \in Range(ComponentsOf(set))} : set \in Range(SetsOn(page))}

PhaseStep ==
  /\ pc' # pc => <<pc, pc'>> \in PhaseSteps
  /\ notes' # notes => pc = "check" /\ pc' = "returned"
  /\ (pc = "check" /\ pc' = "returned") => notes' # notes /\ msgs' = msgs
  /\ (\E k \in (Len(exportCalls) + 1)..Len(exportCalls') : exportCalls'[k] \in StandaloneIds)
       => pc = "groups" /\ SetsAllProcessed
  /\ (\E k \in (Len(exportCalls) + 1)..Len(exportCalls') : exportCalls'[k] \in SetChildIds)
       => pc = "sets"
  /\ Cardinality(SaveMessages') <= 1
  /\ SaveMessages' # SaveMessages
       => pc = "groups" /\ pc' = "returned" /\ SetsAllProcessed /\ GroupsAllProcessed

\* C20: the position of a run moves only along scan, duplicate check, sets,
\* standalone groups, assembly, done; the abort (the notification) comes only
\* from the duplicate check; a standalone component is exported only once
\* every component set has had its round; save-icons-export is posted at most
\* once, and only when every set and every group has had its round.
C20_PhaseOrder == [][PhaseStep]_vars

C20_Witness ==
  /\ RanToEnd
  /\ Cardinality(SaveMessages) = 1
  /\ Len(SetsOn(page)) = 1 /\ Cardinality(StandaloneNames(page)) = 1
  /\ Len(exportCalls) >= 2
  /\ exportCalls[1] \in SetChildIds
  /\ exportCalls[Len(exportCalls)] \in StandaloneIds

-----------------------------------------------------------------------------
(* Properties of mapWithConcurrency                                        *)

\* the iterator calls that have started and have not settled
InFlight == {w \in 1..Len(workers) : workers[w].status \in {"exporting", "yielding"}}

\* the most calls the limit allows for a number of items
Allowed(limit, count) ==
  IF limit < 1 \/ count < 1 THEN 1 ELSE IF limit < count THEN limit ELSE count

\* C21: at every moment of mapWithConcurrency the iterator calls that have
\* started and not settled number at most max(1, min(limit, number of
\* items)), so at most 4 exports of a group are in flight under the limit
\* processIconGroup passes.
C21_BoundedConcurrency ==
  fop = "pool" =>
    /\ Cardinality(InFlight) <= Allowed(fin.limit, Len(fin.components))
    /\ fin.limit = 4 => Cardinality(InFlight) <= 4

C21_Witness ==
  /\ fop = "pool" /\ pc = "running"
  /\ fin.limit = 4 /\ Len(fin.components) = 5
  /\ Cardinality(InFlight) = 4
  /\ nextIndex = 4

\* C22: whatever the interleaving of the workers and the order in which the
\* iterator calls settle, mapWithConcurrency returns an array as long as
\* items whose slot i holds the result of the iterator for items[i]; no slot
\* is left empty.
C22_SlotPerItem ==
  (fop = "pool" /\ pc = "out") =>
    /\ Len(fout) = Len(fin.components)
    /\ \A n \in 1..Len(fout) :
         /\ fout[n] # Unset
         /\ fout[n] = ExportVariant(fin.components[n], fin.baseName)

C22_Witness ==
  /\ fop = "pool" /\ pc = "out"
  /\ fin.limit = 4 /\ Len(fout) = 5
  /\ ~IsVariant(fout[2]) /\ ~IsVariant(fout[4])
  /\ IsVariant(fout[1]) /\ IsVariant(fout[5])
  /\ fout[1].hash # fout[5].hash

NoRepeat(q) == \A m, n \in 1..Len(q) : q[m] = q[n] => m = n

\* C23: the cursor of mapWithConcurrency only increases and every index is
\* taken by one worker: exportAsync is never called twice for a component,
\* and when the pool has returned it has been called once for every
\* component, under every interleaving.
C23_CursorAdvances ==
  [][fop = "pool" =>
       /\ nextIndex' >= nextIndex
       /\ NoRepeat(exportCalls')
       /\ Len(exportCalls') = nextIndex'
       /\ \A v, w \in 1..Len(workers') :
            (v # w /\ workers'[v].status \notin {"ready", "ended"}
                   /\ workers'[w].status \notin {"ready", "ended"})
              => workers'[v].currentIndex # workers'[w].currentIndex
       /\ pc' = "out" =>
            exportCalls' = [n \in 1..Len(fin.components) |-> fin.components[n].id]]_vars

C23_Witness ==
  /\ fop = "pool" /\ pc = "out"
  /\ fin.limit = 2 /\ Len(fin.components) = 5
  /\ nextIndex = 5
  /\ Len(exportCalls) = 5 /\ NoRepeat(exportCalls)

-----------------------------------------------------------------------------
(* Properties of the schedule                                              *)

\* the groups of a page in discovery order: the component sets that have a
\* component, then the standalone base names by first appearance
SetGroups(p) ==
  LET sets == SelectSeq(SetsOn(p), HasComponentChild)
  IN [n \in 1..Len(sets) |-> [baseName |-> sets[n].name, components |-> ComponentsOf(sets[n])]]

FirstAppearances(loose) ==
  {k \in 1..Len(loose) :
     \A j \in 1..(k - 1) : extractBaseName(loose[j].name) # extractBaseName(loose[k].name)}

LooseGroups(p) ==
  LET loose == StandaloneOn(p)
      firsts == FirstAppearances(loose)
      Nth(n) == CHOOSE k \in firsts : Cardinality({j \in firsts : j < k}) = n - 1
      Named(n) == LET SameName(c) == extractBaseName(c.name) = extractBaseName(loose[Nth(n)].name)
                  IN SelectSeq(loose, SameName)
  IN [n \in 1..Cardinality(firsts) |->
        [baseName |-> extractBaseName(loose[Nth(n)].name), components |-> Named(n)]]

Assembles(g) == ~Throws(g)

\* the icons of the document as the page alone determines them
IconsOfPage(p) ==
  LET groups == SelectSeq(SetGroups(p) \o LooseGroups(p), Assembles)
  IN SortedIcons([n \in 1..Len(groups) |->
                    processIconGroup(groups[n].baseName, groups[n].components).icon])

\* C24: the schedule does not show in the result. Whatever the order in
\* which the exports of a group settle and the yields resume, the pool
\* gives the variants (and makes the export calls) of the group taken in
\* index order; and whenever the loops of a run yield and resume, the
\* document posted has the icons the page alone determines, so two runs on
\* one page differ in exportedAt only.
C24_ScheduleIndependent ==
  /\ (fop = "pool" /\ pc = "out" /\ Len(fin.components) > 0) =>
       /\ StableSort(SelectSeq(fout, IsVariant), VariantLess)
            = processIconGroup(fin.baseName, fin.components).icon.variants
       /\ exportCalls = processIconGroup(fin.baseName, fin.components).calls
  /\ fop = "run" =>
       \A k \in SaveMessages :
         /\ DocumentAt(k).icons = IconsOfPage(page)
         /\ DocumentAt(k).totalIcons = Len(IconsOfPage(page))
         /\ DocumentAt(k).schemaVersion = "2.0.0"
         /\ DocumentAt(k).exportedAt \in Clock

\* a run whose two loops both yielded has posted its document
C24_Witness ==
  /\ fop = "run" /\ pc = "done"
  /\ page = PageOf(<<Library, HeartSet>>)
  /\ \E k \in SaveMessages :
       /\ Len(DocumentAt(k).icons) = 9
       /\ DocumentAt(k).icons[1].name = "cloud"
       /\ DocumentAt(k).icons[4].name = "heart"
       /\ Len(DocumentAt(k).icons[4].variants) = 2

-----------------------------------------------------------------------------
(* Termination                                                             *)

Completed == Cardinality(SaveMessages) = 1
AbortedByCheck == notes # <<>>
Failed == ErrorMessages # {}

ExactlyOneOutcome ==
  /\ Completed \/ AbortedByCheck \/ Failed
  /\ ~(Completed /\ AbortedByCheck)
  /\ ~(Completed /\ Failed)
  /\ ~(AbortedByCheck /\ Failed)

\* C25: when every export settles and every yield resumes, a started run
\* comes to its end with exactly one outcome (the document posted, the
\* duplicate notification, or an error message), and the workers of a group
\* finish with every item taken and every slot written.
C25_Terminates ==
  /\ (fop = "run" /\ pc = "scan") ~> (fop = "run" /\ pc = "done" /\ ExactlyOneOutcome)
  /\ (fop = "pool" /\ pc = "running")
       ~> (/\ fop = "pool" /\ pc = "out"
           /\ nextIndex = Len(fin.components)
           /\ \A n \in 1..Len(fin.components) : fout[n] # Unset)

C25_Witness ==
  /\ fop = "run" /\ pc = "done"
  /\ page = PageOf(<<Library>>)
  /\ Completed /\ ~AbortedByCheck /\ ~Failed
  /\ awaiting = ""
  /\ loopIdx = 5

-----------------------------------------------------------------------------
(* Properties of deriveVariant: properties and display name                *)

\* the value the component gives for a property, "" when it gives none
ValueFor(component, propName) ==
  IF ValuesFor(component, propName) \subseteq {""} THEN ""
  ELSE CHOOSE value \in ValuesFor(component, propName) : value # ""

\* the weight-like value: Weight, else Style, else Variant
WeightLikeValue(component) ==
  IF ValueFor(component, "Weight") # "" THEN ValueFor(component, "Weight")
  ELSE IF ValueFor(component, "Style") # "" THEN ValueFor(component, "Style")
  ELSE ValueFor(component, "Variant")

\* the weight a value stands for, by the rule of the specification
WeightNamedBy(value) ==
  LET lower == toLowerCase(trim(value))
  IN IF lower = "regular" THEN "Regular"
     ELSE IF lower = "bold" THEN "Bold"
     ELSE IF lower = "fill" THEN "Fill"
     ELSE IF includes(lower, "bold") THEN "Bold"
     ELSE IF includes(lower, "fill") THEN "Fill"
     ELSE "Regular"

DuotoneNamedBy(value) == toLowerCase(trim(value)) \in {"true", "yes", "1"}

\* C26: for a component whose variant properties give a weight-like value
\* under Weight, Style or Variant (in that order), the weight is the one
\* that value stands for, whatever the display name; and duotone is true
\* exactly when the Duotone value, trimmed and in lower case, is true, yes
\* or 1.
C26_WeightFromValueAlone ==
  (fop = "variant" /\ pc = "out" /\ WeightLikeValue(fin) # "") =>
    /\ fout.weight = WeightNamedBy(WeightLikeValue(fin))
    /\ fout.duotone = DuotoneNamedBy(ValueFor(fin, "Duotone"))

\* the text after the first separator the name contains, "" without one
Suffix(name) ==
  LET seps == {k \in 1..Len(NAME_SEPARATORS) : includes(name, NAME_SEPARATORS[k])}
  IN IF seps = {} THEN ""
     ELSE toLowerCase(trim(Last(split(name, NAME_SEPARATORS[MinOf(seps)]))))

HasWeightWord(text) == \E word \in WeightWords : includes(text, word)
HasToneWord(text) == \E word \in ToneWords : includes(text, word)

\* C27: when a component has no variant properties, or they lack a weight
\* property or lack a duotone property, the display name supplies the
\* missing signal: without a Duotone value a name that says duotone or tone
\* gives duotone = true, without a weight-like value a weight word in the
\* name gives the weight, and a weight word in the suffix after the
\* separator wins over one elsewhere in the name.
C27_NameFallback ==
  (fop = "variant" /\ pc = "out") =>
    /\ (ValueFor(fin, "Duotone") = "" /\ HasToneWord(toLowerCase(fin.name))) => fout.duotone
    /\ (WeightLikeValue(fin) = "" /\ HasWeightWord(toLowerCase(fin.name)))
         => fout.weight = WeightNamedBy(IF HasWeightWord(Suffix(fin.name))
                                        THEN Suffix(fin.name) ELSE fin.name)

-----------------------------------------------------------------------------
(* Properties of the children of component sets                            *)

\* how often the scan lists the component with the id
TimesListed(id) == Cardinality({k \in 1..Len(scan.components) : scan.components[k].id = id})

GroupedIds == UNION {{c.id : c \in Range(entries[n][2])} : n \in 1..Len(entries)}

\* C28: a component that is a direct child of a component set is in no
\* standalone group and is not counted by the duplicate check (a run is
\* stopped by the check only for a name that sets and standalone components
\* share), and exportAsync is called at most once for a component, so that
\* it gives variants to one icon record at most, although the scan lists
\* every set child twice.
C28_SetChildrenClaimed ==
  fop = "run" =>
    /\ GroupedIds \cap SetChildIds = {}
    /\ GroupedIds \subseteq StandaloneIds
    /\ notes # <<>> => DuplicatesDetected
    /\ NoRepeat(exportCalls)
    /\ pc \in {"check", "sets", "groups"} => \A id \in SetChildIds : TimesListed(id) = 2

\* a run over a set and two standalone components has posted its document:
\* the children of the set were listed twice and exported once
C28_Witness ==
  /\ fop = "run" /\ pc = "done"
  /\ page = PageOf(<<StarSet, ArrowBold>>)
  /\ Cardinality(SaveMessages) = 1
  /\ Len(scan.components) = 2 * Len(ComponentsOf(StarSet)) + 1
  /\ Len(exportCalls) = Len(ComponentsOf(StarSet)) + 1
  /\ Len(entries) = 1

-----------------------------------------------------------------------------
(* Properties of the names of the document                                 *)

\* C29: in every posted document no two icon records have the same name,
\* also when groups pass the duplicate check with base names that differ
\* and have the same kebab-case form.
C29_IconNamesUnique ==
  fop = "run" =>
    \A k \in SaveMessages :
      \A m, n \in 1..Len(DocumentAt(k).icons) :
        DocumentAt(k).icons[m].name = DocumentAt(k).icons[n].name => m = n

\* C30: every icon record of a posted document has at least one variant: a
\* group whose exports all fail, like a component set without component
\* children, leaves no record in the document.
C30_EveryIconHasVariant ==
  fop = "run" =>
    \A k \in SaveMessages :
      \A n \in 1..Len(DocumentAt(k).icons) : Len(DocumentAt(k).icons[n].variants) >= 1


====
